---- MODULE Spec2Model ----
(***************************************************************************)
(* Feed generation and repository lifecycle of the GitHub RSS generator.   *)
(*                                                                         *)
(* The repository holds three server builds of the same Meteor methods     *)
(* and one stand-alone cron script:                                        *)
(*   V1   imports/api/repositories/methods.ts, lines 1-315                 *)
(*        (generateRSSAndUpdateRepository, clients/github.ts, clients/s3)  *)
(*   V2   imports/api/repositories/methods.ts, lines 316-720               *)
(*        (repositories.generateRSS with the 30-minute cache check)        *)
(*   P3   unnamed/part_003 (repositories.search creating and refreshing    *)
(*        inline, clients of unnamed/part_008 and clients/s3.ts)           *)
(*   cron scripts/update-feeds.js, a separate process on the same           *)
(*        'repositories' collection (V1 and V2 only: P3 stores its records *)
(*        in the 'githubRepo' collection, unnamed/part_005 line 6).        *)
(* A behaviour runs one server build, chosen in Init.                      *)
(*                                                                         *)
(* Strings are sequences of one-character strings; time is counted in      *)
(* minutes.                                                                *)
(***************************************************************************)
EXTENDS Integers, Sequences, FiniteSets, TLC

VARIABLES
  build,        \* which server build runs: "V1", "V2" or "P3"
  s3Configured, \* Meteor.settings.private.aws is complete
  now,          \* Date.now(), in minutes
  ticks,        \* number of clock advances so far
  records,      \* the collection: records[i] is the document with _id i
  calls,        \* method invocations and cron runs, in order of arrival
  artifacts,    \* published feed files: set of [key, type, body]
  faults,       \* answers other than success received so far from GitHub,
                \* S3, the file system and the collection
  lastWrite,    \* the last status write that reached the collection
  decision,     \* staleness policy under test (SpecStale only)
  io            \* client function under test, its input and its result
                \* (SpecClients only)

vars == <<build, s3Configured, now, ticks, records, calls, artifacts,
          faults, lastWrite, decision, io>>

(***************************************************************************)
(* Bounds                                                                  *)
(***************************************************************************)
MaxRecords == 2
MaxCalls == 2
MaxFaults == 1
MaxTicks == 1
MaxClock == 40

FreshnessWindow == 30

None == "none"

FeedTypes == {"issues", "pullRequests", "discussions", "releases"}
Statuses == {"pending", "generating", "ready", "error"}

(***************************************************************************)
(* Strings                                                                 *)
(***************************************************************************)
LowerOf ==
  [c \in {"A", "B", "C", "D", "E", "F", "G", "H", "I", "J", "K", "L", "M",
          "N", "O", "P", "Q", "R", "S", "T", "U", "V", "W", "X", "Y", "Z"} |->
     CASE c = "A" -> "a" [] c = "B" -> "b" [] c = "C" -> "c" [] c = "D" -> "d"
       [] c = "E" -> "e" [] c = "F" -> "f" [] c = "G" -> "g" [] c = "H" -> "h"
       [] c = "I" -> "i" [] c = "J" -> "j" [] c = "K" -> "k" [] c = "L" -> "l"
       [] c = "M" -> "m" [] c = "N" -> "n" [] c = "O" -> "o" [] c = "P" -> "p"
       [] c = "Q" -> "q" [] c = "R" -> "r" [] c = "S" -> "s" [] c = "T" -> "t"
       [] c = "U" -> "u" [] c = "V" -> "v" [] c = "W" -> "w" [] c = "X" -> "x"
       [] c = "Y" -> "y" [] c = "Z" -> "z"]

toLowerCase(s) ==
  [i \in 1..Len(s) |-> IF s[i] \in DOMAIN LowerOf THEN LowerOf[s[i]] ELSE s[i]]

GithubComSlash == <<"g", "i", "t", "h", "u", "b", ".", "c", "o", "m", "/">>
HttpsGithubComSlash == <<"h", "t", "t", "p", "s", ":", "/", "/">> \o GithubComSlash
DotGit == <<".", "g", "i", "t">>

SetMax(S) == CHOOSE x \in S : \A y \in S : y <= x
SetMin(S) == CHOOSE x \in S : \A y \in S : x <= y

\* last index of the maximal run of non-slash characters starting at j
\* (j - 1 when the run is empty): the greedy [^\/]+ of the pattern
RunEnd(s, j) ==
  SetMax({k \in (j - 1)..Len(s) : \A m \in j..k : s[m] # "/"})

\* /github\.com\/([^\/]+)\/([^\/]+)/ matches with "github.com/" at index i
MatchAt(s, i) ==
  /\ i + Len(GithubComSlash) - 1 <= Len(s)
  /\ SubSeq(s, i, i + Len(GithubComSlash) - 1) = GithubComSlash
  /\ LET o1 == i + Len(GithubComSlash)
         o2 == RunEnd(s, o1)
     IN /\ o2 >= o1
        /\ o2 + 1 <= Len(s)
        /\ s[o2 + 1] = "/"
        /\ RunEnd(s, o2 + 2) >= o2 + 2

EndsWith(s, t) ==
  /\ Len(s) >= Len(t)
  /\ SubSeq(s, Len(s) - Len(t) + 1, Len(s)) = t

\* repo.replace(/\.git$/, '')
StripDotGit(s) ==
  IF EndsWith(s, DotGit) THEN SubSeq(s, 1, Len(s) - Len(DotGit)) ELSE s

\* what parseGitHubUrl yields when it throws invalid-url (a match never has
\* an empty owner)
InvalidUrl == [owner |-> <<>>, repo |-> <<>>, fullUrl |-> <<>>]

\* a parser that accepts every string
parseGitHubUrlLax(githubUrl) ==
  [owner |-> githubUrl, repo |-> <<"r">>,
   fullUrl |-> HttpsGithubComSlash \o githubUrl \o <<"/", "r">>]

\* parseGitHubUrl: InvalidUrl when the pattern does not match
parseGitHubUrl(githubUrl) ==
  LET starts == {i \in 1..Len(githubUrl) : MatchAt(githubUrl, i)}
  IN IF starts = {} THEN InvalidUrl
     ELSE LET i  == SetMin(starts)
              o1 == i + Len(GithubComSlash)
              o2 == RunEnd(githubUrl, o1)
              r2 == RunEnd(githubUrl, o2 + 2)
              owner == SubSeq(githubUrl, o1, o2)
              cleanRepo == StripDotGit(SubSeq(githubUrl, o2 + 2, r2))
          IN [owner |-> owner, repo |-> cleanRepo,
              fullUrl |-> HttpsGithubComSlash \o owner \o <<"/">> \o cleanRepo]

\* `${owner}-${repo}`
repoPath(owner, repo) == owner \o <<"-">> \o repo

\* strings without the github.com/{owner}/{repo} shape
BadUrls ==
  { <<"o", "/", "r">>,
    HttpsGithubComSlash \o <<"o">>,
    HttpsGithubComSlash \o <<"o", "/">> }

\* the strings the callers submit
Urls ==
  { HttpsGithubComSlash \o <<"o", "/", "r">>,
    HttpsGithubComSlash \o <<"O", "/", "r">>,
    HttpsGithubComSlash \o <<"o", "/", "r", ".", "g", "i", "t">> }
    \cup BadUrls

(***************************************************************************)
(* Records and the collection                                              *)
(***************************************************************************)
NoDate == 0 - 1
NoUrl == <<>>
NoFeeds == [ft \in FeedTypes |-> NoUrl]

\* repositories.create inserting the document as already generated
NewRecordReady(p, t) ==
  [url |-> p.fullUrl, owner |-> toLowerCase(p.owner),
   repo |-> toLowerCase(p.repo), createdAt |-> t, lastUpdate |-> NoDate,
   feeds |-> NoFeeds, status |-> "ready", error |-> None]

\* the document inserted by repositories.create
NewRecord(p, t) ==
  [url |-> p.fullUrl, owner |-> toLowerCase(p.owner),
   repo |-> toLowerCase(p.repo), createdAt |-> t, lastUpdate |-> NoDate,
   feeds |-> NoFeeds, status |-> "pending", error |-> None]

\* the document inserted by createRepository (repositories.search, P3)
NewSearchRecord(p, t) ==
  [url |-> p.fullUrl, owner |-> toLowerCase(p.owner),
   repo |-> toLowerCase(p.repo), createdAt |-> t, lastUpdate |-> t,
   feeds |-> NoFeeds, status |-> "pending", error |-> None]

\* findRepositoryByOwnerRepo comparing the owner and repo as typed
findRepositoryByOwnerRepoExact(owner, repo) ==
  {i \in 1..Len(records) :
     records[i].owner = owner /\ records[i].repo = repo}

\* findRepositoryByOwnerRepo: ids of the documents with that owner and repo
findRepositoryByOwnerRepo(owner, repo) ==
  {i \in 1..Len(records) :
     /\ records[i].owner = toLowerCase(owner)
     /\ records[i].repo = toLowerCase(repo)}

\* the unique index on url rejects an insert of a url already stored
UrlIndexRejects(url) == \E i \in 1..Len(records) : records[i].url = url

\* additionalFields of updateRepositoryStatus
Fields(hasFeeds, feeds, hasError, error) ==
  [hasFeeds |-> hasFeeds, feeds |-> feeds, hasError |-> hasError,
   error |-> error]
NoFields == Fields(FALSE, NoFeeds, FALSE, None)

\* an update that replaces the feeds mapping even when none is passed
updateRepositoryStatusResettingFeeds(rec, status, additionalFields, t) ==
  [rec EXCEPT !.status = status,
              !.lastUpdate = t,
              !.feeds = additionalFields.feeds,
              !.error = IF additionalFields.hasError
                          THEN additionalFields.error ELSE @]

\* an update that also stamps createdAt
updateRepositoryStatusStamping(rec, status, additionalFields, t) ==
  [rec EXCEPT !.status = status, !.lastUpdate = t, !.createdAt = t]

\* updateRepositoryStatus: $set {status, lastUpdate, ...additionalFields}
updateRepositoryStatus(rec, status, additionalFields, t) ==
  [rec EXCEPT !.status = status,
              !.lastUpdate = t,
              !.feeds = IF additionalFields.hasFeeds
                          THEN additionalFields.feeds ELSE @,
              !.error = IF additionalFields.hasError
                          THEN additionalFields.error ELSE @]

(***************************************************************************)
(* Staleness policy                                                        *)
(***************************************************************************)
\* repositoryNeedsRefresh comparing with < instead of <=
repositoryNeedsRefreshStrict(rec, t) ==
  /\ rec.status = "ready"
  /\ (rec.lastUpdate = NoDate \/ rec.lastUpdate < t - FreshnessWindow)

\* repositoryNeedsRefresh (P3)
repositoryNeedsRefresh(rec, t) ==
  /\ rec.status = "ready"
  /\ (rec.lastUpdate = NoDate \/ rec.lastUpdate <= t - FreshnessWindow)

\* getFeedsWithCache without its cache: every call regenerates
getFeedsWithCacheAlwaysRegenerates(rec, t) == TRUE

\* the cache test of getFeedsWithCache (V2): TRUE when it regenerates;
\* repository.feeds is an object in every stored document, so !feeds is false
getFeedsWithCacheRegenerates(rec, t) ==
  rec.lastUpdate = NoDate \/ rec.lastUpdate <= t - FreshnessWindow

\* the cache test of repositories.generateRSS (V2): TRUE when it returns the
\* stored feeds without a pass
generateRSSServesCache(rec, t) ==
  /\ rec.lastUpdate # NoDate
  /\ rec.lastUpdate > t - FreshnessWindow
  /\ rec.status = "ready"

(***************************************************************************)
(* Calls                                                                   *)
(***************************************************************************)
NoParsed == [owner |-> <<>>, repo |-> <<>>, fullUrl |-> <<>>]
NoSnap == [owner |-> <<>>, repo |-> <<>>, url |-> <<>>]
NoRss == [ft \in FeedTypes |-> "absent"]

\* a method invocation or cron run: its position (pc), its locals and what
\* it returned
NewCall(op) ==
  [op |-> op, pc |-> "new", p |-> NoParsed, id |-> 0, snap |-> NoSnap,
   tried |-> {}, failed |-> {}, rss |-> NoRss, pending |-> {},
   upfail |-> {}, feeds |-> NoFeeds, queue |-> <<>>, returned |-> FALSE,
   result |-> None, created |-> FALSE, statusAtReturn |-> None, err |-> None]

\* the locals of a call that has ended are dropped once its uploads settled
Settled(call) ==
  IF call.pc \in {"done", "thrown"} /\ call.pending = {}
    THEN [call EXCEPT !.p = NoParsed, !.snap = NoSnap, !.tried = {},
                      !.failed = {}, !.rss = NoRss, !.upfail = {},
                      !.queue = <<>>, !.err = None]
    ELSE call

SnapOf(rec) == [owner |-> rec.owner, repo |-> rec.repo, url |-> rec.url]

NoWrite ==
  [id |-> 0, old |-> None, new |-> None, op |-> None, feeds |-> NoFeeds,
   error |-> None, failed |-> {}, upfail |-> {}]

\* a pass of call c is between its 'generating' write and its terminal write
InPass(c) == calls[c].pc \in {"fetch", "cfeeds", "upload", "wready", "werr"}
Finished(c) == calls[c].pc \in {"done", "thrown"}

feedUrl(scheme, key, ft) == <<scheme>> \o key \o <<"/", ft>>

\* the feeds mapping built by generateRSSFeeds (V1: API URLs) and by
\* generateRSSFeeds / generateRSS (V2, P3: direct S3 URLs)
PassFeeds(snap) ==
  [ft \in FeedTypes |->
     feedUrl(IF build = "V1" THEN "api" ELSE "s3",
             repoPath(snap.owner, snap.repo), ft)]

Put(store, key, ft, body) ==
  {a \in store : ~(a.key = key /\ a.type = ft)}
    \cup {[key |-> key, type |-> ft, body |-> body]}

RECURSIVE PutAll(_, _, _, _)
PutAll(store, key, fts, rss) ==
  IF fts = {} THEN store
  ELSE LET ft == CHOOSE x \in fts : TRUE
       IN PutAll(Put(store, key, ft, rss[ft]), key, fts \ {ft}, rss)

(***************************************************************************)
(* Initial state                                                           *)
(***************************************************************************)
Init ==
  /\ build \in {"V1", "V2", "P3"}
  /\ s3Configured \in BOOLEAN
  /\ now = 0
  /\ ticks = 0
  /\ records = <<>>
  /\ calls = <<>>
  /\ artifacts = {}
  /\ faults = 0
  /\ lastWrite = NoWrite
  /\ decision = None
  /\ io = None

(***************************************************************************)
(* Store writes                                                            *)
(***************************************************************************)
\* a status write of call c reaches the collection
StoreWrite(c, id, status, additionalFields) ==
  /\ records' = [records EXCEPT
                   ![id] = updateRepositoryStatus(@, status,
                                                  additionalFields, now)]
  /\ lastWrite' = [id |-> id, old |-> records[id].status, new |-> status,
                   op |-> calls[c].op, feeds |-> records'[id].feeds,
                   error |-> records'[id].error,
                   failed |-> calls[c].failed, upfail |-> calls[c].upfail]
  /\ UNCHANGED faults

\* the collection rejects a write (the update promise rejects)
StoreReject ==
  /\ faults < MaxFaults
  /\ faults' = faults + 1
  /\ UNCHANGED <<records, lastWrite>>

Env == <<build, s3Configured, decision, io>>

(***************************************************************************)
(* repositories.create (V1, V2)                                            *)
(***************************************************************************)
\* check, parseGitHubUrl and the findRepositoryByOwnerRepo read
Create(u) ==
  /\ build \in {"V1", "V2"}
  /\ Len(calls) < MaxCalls
  /\ LET p == parseGitHubUrl(u)
         existing == findRepositoryByOwnerRepo(p.owner, p.repo)
         call == [NewCall("create") EXCEPT !.p = p]
     IN calls' = Append(calls,
                   IF p = InvalidUrl
                     THEN Settled([call EXCEPT !.pc = "thrown",
                                               !.returned = TRUE,
                                               !.result = "invalid-url"])
                   ELSE IF existing # {}
                     THEN Settled([call EXCEPT !.pc = "thrown",
                                               !.returned = TRUE,
                                               !.result = "already-exists"])
                     ELSE [call EXCEPT !.pc = "cinsert"])
  /\ UNCHANGED <<Env, now, ticks, records, artifacts, faults, lastWrite>>

\* Repositories.insertAsync, Meteor.defer and the return of the new id
CreateInsert(c) ==
  /\ calls[c].op = "create"
  /\ calls[c].pc = "cinsert"
  /\ IF UrlIndexRejects(calls[c].p.fullUrl)
       THEN /\ calls' = [calls EXCEPT ![c] =
                 Settled([@ EXCEPT !.pc = "thrown", !.returned = TRUE,
                                   !.result = "duplicate-key"])]
            /\ UNCHANGED records
       ELSE /\ Len(records) < MaxRecords
            /\ records' = Append(records, NewRecord(calls[c].p, now))
            /\ calls' = [calls EXCEPT ![c].pc = "find",
                                      ![c].id = Len(records) + 1,
                                      ![c].created = TRUE,
                                      ![c].returned = TRUE,
                                      ![c].result = "created",
                                      ![c].statusAtReturn =
                                          NewRecord(calls[c].p, now).status]
  /\ UNCHANGED <<Env, now, ticks, artifacts, faults, lastWrite>>

(***************************************************************************)
(* The generation pass of the server builds                                *)
(***************************************************************************)
\* the exception leaves the pass without a terminal write
Throw(call, result) ==
  Settled([call EXCEPT !.pc = "thrown", !.returned = TRUE,
                       !.result = IF call.returned THEN @ ELSE result])

\* findRepositoryById at the head of generateRSSAndUpdateRepository (V1) and
\* of repositories.generateRSS (V2, with its cache test)
AfterFind(call, id) ==
  IF id > Len(records)
    THEN Throw(call, "repository-not-found")
    ELSE IF build = "V2" /\ generateRSSServesCache(records[id], now)
      THEN Settled([call EXCEPT
                      !.pc = "done", !.id = id,
                      !.result = IF call.returned THEN @ ELSE "cached",
                      !.feeds = records[id].feeds, !.returned = TRUE])
      ELSE [call EXCEPT !.pc = "wgen", !.id = id,
                        !.snap = SnapOf(records[id])]

\* the deferred pass scheduled by repositories.create starts; likewise
\* repositories.generateRSS reached through Meteor.callAsync
GenFind(c) ==
  /\ calls[c].op \in {"create", "getFeedsWithCache"}
  /\ calls[c].pc = "find"
  /\ calls' = [calls EXCEPT ![c] = AfterFind(@, @.id)]
  /\ UNCHANGED <<Env, now, ticks, records, artifacts, faults, lastWrite>>

\* repositories.generateRSS called by a client (force-generate)
GenerateRSS(id) ==
  /\ build \in {"V1", "V2"}
  /\ Len(calls) < MaxCalls
  /\ calls' = Append(calls, AfterFind(NewCall("generateRSS"), id))
  /\ UNCHANGED <<Env, now, ticks, records, artifacts, faults, lastWrite>>

\* getFeedsWithCache (V2): findRepositoryById, the cache test, then either
\* the stored feeds or Meteor.callAsync('repositories.generateRSS', id)
GetFeedsWithCache(id) ==
  /\ build = "V2"
  /\ Len(calls) < MaxCalls
  /\ LET call == NewCall("getFeedsWithCache")
     IN calls' = Append(calls,
          IF id > Len(records)
            THEN Throw(call, "repository-not-found")
            ELSE IF getFeedsWithCacheRegenerates(records[id], now)
              THEN [call EXCEPT !.pc = "find", !.id = id]
              ELSE Settled([call EXCEPT
                              !.pc = "done", !.id = id, !.returned = TRUE,
                              !.result = "cache-hit",
                              !.statusAtReturn = records[id].status,
                              !.feeds = records[id].feeds]))
  /\ UNCHANGED <<Env, now, ticks, records, artifacts, faults, lastWrite>>

\* a call whose failures are caught and turned into the 'error' write
Catches(call) == call.op = "cron" \/ (build = "V1" /\ call.op # "search")

\* updateRepositoryStatus(id, 'generating'); in V2 and P3 the S3 settings
\* test of generateRSSFeeds / generateRSS follows without a suspension
WriteGenerating(c, ok) ==
  /\ calls[c].pc = "wgen"
  /\ IF ok
       THEN /\ StoreWrite(c, calls[c].id, "generating", NoFields)
            /\ calls' = [calls EXCEPT ![c] =
                 IF @.op = "cron" THEN [@ EXCEPT !.pc = "cfeeds"]
                 ELSE IF build # "V1" /\ ~s3Configured
                   THEN Throw(@, "s3-config")
                   ELSE [@ EXCEPT !.pc = "fetch"]]
       ELSE /\ StoreReject
            /\ calls' = [calls EXCEPT ![c] =
                 IF Catches(@)
                   THEN [@ EXCEPT !.pc = "werr", !.err = "store-error"]
                   ELSE Throw(@, "store-error")]
  /\ UNCHANGED <<Env, now, ticks, artifacts>>

Outcomes == {"ok", "404", "err"}

\* the feed types GitHub does not answer with success
NotOk(out) == {ft \in FeedTypes : out[ft] # "ok"}

\* what GitHub answers to the fetches of one pass, per feed type
FetchScenarios ==
  {out \in [FeedTypes -> Outcomes] :
     faults + Cardinality(NotOk(out)) <= MaxFaults}

\* generateRSSWithGitHubData, as far as the pass is concerned: a feed with
\* items or a channel without items
Rendered(outcome) == IF outcome = "ok" THEN "items" ELSE "empty"

ServerFetchOrder ==
  IF build = "V1" THEN <<"issues", "pullRequests", "releases", "discussions">>
                  ELSE <<"issues", "pullRequests", "releases">>

Range(q) == {q[i] : i \in 1..Len(q)}

\* the feed types a sequential loop reaches when a failed fetch throws
ReachedBeforeThrow(order, out) ==
  {order[i] : i \in {j \in 1..Len(order) :
                       \A k \in 1..(j - 1) : out[order[k]] # "err"}}

\* the fetch-and-render loop up to the start of the uploads.
\*   V1: GitHubService.fetchFeed returns [] for every failure, each feed
\*       type is in its own try, new S3Service() is inside a try
\*   V2: fetchGitHubData throws on a non-404 failure and ends the loop
\*   P3: GitHubClient.fetchFeed throws, the three fetches run in Promise.all
\*   V2 and P3 render discussions from [] without a fetch
FetchFeedsWith(c, out) ==
  /\ NotOk(out) \subseteq
        (IF build = "V2" THEN ReachedBeforeThrow(ServerFetchOrder, out)
                         ELSE Range(ServerFetchOrder))
  /\ faults' = faults + Cardinality(NotOk(out))
  /\ LET order == ServerFetchOrder
         tried == IF build = "V2" THEN ReachedBeforeThrow(order, out)
                                  ELSE Range(order)
         failed == {ft \in tried : out[ft] = "err"}
         rss == [ft \in FeedTypes |->
                   IF ft \in Range(order) THEN Rendered(out[ft])
                                          ELSE "empty"]
         call == [calls[c] EXCEPT !.tried = tried, !.failed = failed]
     IN calls' = [calls EXCEPT ![c] =
          IF build # "V1" /\ failed # {}
            THEN Throw(call, "github-error")
            ELSE IF ~s3Configured
              THEN [call EXCEPT !.rss = rss, !.pc = "wready"]
              ELSE [call EXCEPT !.rss = rss, !.pc = "upload"]]
  /\ UNCHANGED <<Env, now, ticks, records, artifacts, lastWrite>>

FetchFeeds(c) ==
  /\ calls[c].pc = "fetch"
  /\ \E out \in FetchScenarios : FetchFeedsWith(c, out)

\* S3Service.uploadAllRSSToS3 settles: every upload succeeded (bad = None),
\* or the upload of bad is the first to fail, after those of okBefore
\* succeeded. uploadRSSToS3 rethrows, so Promise.all rejects at the first
\* failure while the other uploads are still in flight; V1 catches the
\* rejection, V2 and P3 do not
UploadAllWith(c, bad, okBefore) ==
  /\ IF bad = None THEN okBefore = FeedTypes /\ UNCHANGED faults
                   ELSE /\ bad \notin okBefore
                        /\ faults < MaxFaults
                        /\ faults' = faults + 1
  /\ artifacts' = PutAll(artifacts,
                         repoPath(calls[c].snap.owner, calls[c].snap.repo),
                         okBefore, calls[c].rss)
  /\ calls' = [calls EXCEPT ![c] =
       IF bad = None THEN [@ EXCEPT !.pc = "wready"]
       ELSE LET call == [@ EXCEPT !.upfail = {bad},
                                  !.pending = FeedTypes \ (okBefore \cup {bad})]
            IN IF build = "V1" THEN [call EXCEPT !.pc = "wready"]
                               ELSE Throw(call, "upload-error")]
  /\ UNCHANGED <<Env, now, ticks, records, lastWrite>>

UploadAll(c) ==
  /\ calls[c].pc = "upload"
  /\ \E bad \in FeedTypes \cup {None}, okBefore \in SUBSET FeedTypes :
        UploadAllWith(c, bad, okBefore)

\* an upload left in flight by the rejected Promise.all settles
LateUpload(c, ft, ok) ==
  /\ calls[c].pending # {}
  /\ ft \in calls[c].pending
  /\ IF ok THEN UNCHANGED faults
           ELSE faults < MaxFaults /\ faults' = faults + 1
  /\ artifacts' =
       IF ok THEN Put(artifacts,
                      repoPath(calls[c].snap.owner, calls[c].snap.repo),
                      ft, calls[c].rss[ft])
             ELSE artifacts
  /\ calls' = [calls EXCEPT ![c] = Settled([@ EXCEPT !.pending = @ \ {ft}])]
  /\ UNCHANGED <<Env, now, ticks, records, lastWrite>>

\* the cron run moves to its next repository or ends
CronAdvance(call) ==
  LET rest == Tail(call.queue)
  IN IF rest = <<>>
       THEN Settled([call EXCEPT !.pc = "done", !.returned = TRUE,
                                 !.feeds = NoFeeds])
       ELSE [call EXCEPT !.pc = "wgen", !.queue = rest, !.id = Head(rest),
                         !.snap = SnapOf(records[Head(rest)]),
                         !.tried = {}, !.failed = {}, !.upfail = {},
                         !.feeds = NoFeeds]

\* updateRepositoryStatus(id, 'ready', { feeds })
WriteReady(c, ok) ==
  /\ calls[c].pc = "wready"
  /\ LET feeds == IF calls[c].op = "cron" THEN calls[c].feeds
                                          ELSE PassFeeds(calls[c].snap)
     IN IF ok
          THEN /\ StoreWrite(c, calls[c].id, "ready",
                             Fields(TRUE, feeds, FALSE, None))
               /\ calls' = [calls EXCEPT ![c] =
                    CASE @.op = "cron" -> CronAdvance(@)
                      [] @.op = "search" -> [@ EXCEPT !.pc = "srefind"]
                      [] OTHER ->
                           Settled([@ EXCEPT
                              !.pc = "done", !.returned = TRUE,
                              !.feeds = feeds,
                              !.result = IF @ = None THEN "feeds" ELSE @])]
          ELSE /\ StoreReject
               /\ calls' = [calls EXCEPT ![c] =
                    IF Catches(@)
                      THEN [@ EXCEPT !.pc = "werr", !.err = "store-error"]
                      ELSE Throw(@, "store-error")]
  /\ UNCHANGED <<Env, now, ticks, artifacts>>

\* the catch block: updateRepositoryStatus(id, 'error', { error: message }),
\* then V1 rethrows and the cron run goes on with its next repository
WriteError(c, ok) ==
  /\ calls[c].pc = "werr"
  /\ IF ok
       THEN /\ StoreWrite(c, calls[c].id, "error",
                          Fields(FALSE, NoFeeds, TRUE, calls[c].err))
            /\ calls' = [calls EXCEPT ![c] =
                 IF @.op = "cron" THEN CronAdvance(@)
                                  ELSE Throw(@, @.err)]
       ELSE /\ StoreReject
            /\ calls' = [calls EXCEPT ![c] =
                 IF @.op = "cron"
                   THEN Settled([@ EXCEPT !.pc = "done", !.returned = TRUE,
                                          !.result = "job-failed",
                                          !.feeds = NoFeeds])
                   ELSE Throw(@, "store-error")]
  /\ UNCHANGED <<Env, now, ticks, artifacts>>

(***************************************************************************)
(* repositories.getFeeds and repositories.updateStatus (V1, V2)            *)
(***************************************************************************)
\* repositories.getFeeds: findRepositoryById, then the stored feeds
GetFeeds(id) ==
  /\ build \in {"V1", "V2"}
  /\ Len(calls) < MaxCalls
  /\ LET call == NewCall("getFeeds")
     IN calls' = Append(calls,
          IF id > Len(records)
            THEN Throw(call, "not-found")
            ELSE Settled([call EXCEPT
                            !.pc = "done", !.id = id, !.returned = TRUE,
                            !.result = "feeds",
                            !.statusAtReturn = records[id].status,
                            !.feeds = records[id].feeds]))
  /\ UNCHANGED <<Env, now, ticks, records, artifacts, faults, lastWrite>>

\* a feeds mapping sent by a client of repositories.updateStatus
ClientFeeds == [ft \in FeedTypes |-> feedUrl("client", <<"o", "-", "r">>, ft)]

\* the arguments (status, feeds?, error?) clients send; check(status,
\* String) accepts every string, "archived" stands for one that is no status
UpdateStatusArgs ==
  { [status |-> "pending", fields |-> NoFields],
    [status |-> "generating", fields |-> NoFields],
    [status |-> "ready", fields |-> Fields(TRUE, ClientFeeds, FALSE, None)],
    [status |-> "error",
     fields |-> Fields(FALSE, NoFeeds, TRUE, "client-error")],
    [status |-> "archived", fields |-> NoFields] }

\* repositories.updateStatus: no lookup; updateAsync on an id that matches
\* no document modifies nothing and resolves with 0
UpdateStatus(id, args, ok) ==
  /\ build \in {"V1", "V2"}
  /\ Len(calls) < MaxCalls
  /\ LET call == NewCall("updateStatus")
     IN IF id > Len(records)
          THEN /\ ok
               /\ calls' = Append(calls,
                    Settled([call EXCEPT !.pc = "done", !.returned = TRUE,
                                         !.result = "0"]))
               /\ UNCHANGED <<records, lastWrite, faults>>
          ELSE IF ok
            THEN /\ calls' = Append(calls,
                      Settled([call EXCEPT !.pc = "done", !.id = id,
                                           !.returned = TRUE,
                                           !.result = "1"]))
                 /\ records' = [records EXCEPT
                      ![id] = updateRepositoryStatus(@, args.status,
                                                     args.fields, now)]
                 /\ lastWrite' =
                      [id |-> id, old |-> records[id].status,
                       new |-> args.status, op |-> "updateStatus",
                       feeds |-> records'[id].feeds,
                       error |-> records'[id].error,
                       failed |-> {}, upfail |-> {}]
                 /\ UNCHANGED faults
            ELSE /\ StoreReject
                 /\ calls' = Append(calls,
                      Throw([call EXCEPT !.id = id], "store-error"))
  /\ UNCHANGED <<Env, now, ticks, artifacts>>

(***************************************************************************)
(* The cron script (scripts/update-feeds.js)                               *)
(***************************************************************************)
\* getPendingRepositories: status in ['pending', 'generating']
getPendingRepositories ==
  SelectSeq([i \in 1..Len(records) |-> i],
            LAMBDA i : records[i].status \in {"pending", "generating"})

\* the method repositories.getPending (V1, V2): the same selection, sorted
\* by createdAt, which is the order of insertion
repositoriesGetPending ==
  SelectSeq([i \in 1..Len(records) |-> i],
            LAMBDA i : records[i].status \in {"pending", "generating"})

\* processAllPendingRepositories up to the first generateFeedsForRepository.
\* The queue holds ids: owner, repo and url of a document never change, so
\* the copies made by toArray() equal the stored ones
CronRun ==
  /\ build \in {"V1", "V2"}
  /\ Len(calls) < MaxCalls
  /\ LET pendingRepos == getPendingRepositories
         call == NewCall("cron")
     IN calls' = Append(calls,
          IF pendingRepos = <<>>
            THEN [call EXCEPT !.pc = "done", !.returned = TRUE]
            ELSE [call EXCEPT !.pc = "wgen", !.queue = pendingRepos,
                              !.id = Head(pendingRepos),
                              !.snap = SnapOf(records[Head(pendingRepos)])])
  /\ UNCHANGED <<Env, now, ticks, records, artifacts, faults, lastWrite>>

\* the loop of generateFeedsForRepository: fetchGitHubData returns [] for
\* every failure; saveRSSFile throws for the feed types of unsaved, whose
\* files cannot be written, and the catch records null for them
CronFeedsWith(c, out, unsaved) ==
  /\ faults' = faults + Cardinality(NotOk(out)) + Cardinality(unsaved)
  /\ faults' <= MaxFaults
  /\ LET key == calls[c].snap.owner \o <<"/">> \o calls[c].snap.repo
         rss == [ft \in FeedTypes |-> Rendered(out[ft])]
     IN /\ artifacts' = PutAll(artifacts, key, FeedTypes \ unsaved, rss)
        /\ calls' = [calls EXCEPT ![c] =
             [@ EXCEPT
                !.tried = FeedTypes,
                !.failed = {ft \in FeedTypes : out[ft] = "err"},
                !.upfail = unsaved,
                !.feeds = [ft \in FeedTypes |->
                             IF ft \in unsaved THEN NoUrl
                                               ELSE feedUrl("local", key, ft)],
                !.pc = "wready"]]
  /\ UNCHANGED <<Env, now, ticks, records, lastWrite>>

CronFeeds(c) ==
  /\ calls[c].op = "cron"
  /\ calls[c].pc = "cfeeds"
  /\ \E out \in FetchScenarios :
       \E unsaved \in SUBSET FeedTypes : CronFeedsWith(c, out, unsaved)

(***************************************************************************)
(* Answers of GitHub                                                       *)
(***************************************************************************)
MaxItems == 2

\* HTTP statuses GitHub answers with
HttpStatuses == {200, 201, 301, 403, 404, 500}

\* response.ok
ResponseOk(status) == status \in 200..299

\* an answer of fetch(): net = TRUE when fetch() rejects, else the status
\* and the parsed body (an array of items, or something that is no array)
Responses ==
  [net : {TRUE}, status : {200}, isArray : {FALSE}, items : {<<>>}]
    \cup [net : {FALSE}, status : HttpStatuses, isArray : BOOLEAN,
          items : {[i \in 1..n |-> i] : n \in 0..MaxItems}]

\* the answers to the request for the repository itself
ExistenceResponses ==
  {r \in Responses : ~r.isArray /\ r.items = <<>>}

\* GitHubClient.repositoryExists (part_008): FALSE on 404, throws on any
\* other failure
GitHubClientRepositoryExists(response) ==
  IF response.net THEN [threw |-> TRUE, value |-> FALSE]
  ELSE IF response.status = 404 THEN [threw |-> FALSE, value |-> FALSE]
  ELSE IF ~ResponseOk(response.status) THEN [threw |-> TRUE, value |-> FALSE]
  ELSE [threw |-> FALSE, value |-> TRUE]

\* the existence check taking every answer but 404 for an existing
\* repository
gitHubRepositoryExistsUnlessMissing(response) ==
  response.net \/ response.status # 404

\* gitHubRepositoryExists (P3): repositoryExists(...).catch(() => false)
gitHubRepositoryExists(response) ==
  LET r == GitHubClientRepositoryExists(response)
  IN IF r.threw THEN FALSE ELSE r.value

\* checkGitHubRepositoryExists (V2): response.ok, FALSE when fetch rejects
checkGitHubRepositoryExists(response) ==
  IF response.net THEN FALSE ELSE ResponseOk(response.status)

(***************************************************************************)
(* repositories.search (P3)                                                *)
(***************************************************************************)
\* parseGitHubUrl, gitHubRepositoryExists and findRepositoryByOwnerAndRepo
Search(u, response) ==
  /\ build = "P3"
  /\ Len(calls) < MaxCalls
  /\ LET p == parseGitHubUrl(u)
         exists == gitHubRepositoryExists(response)
         found == findRepositoryByOwnerRepo(p.owner, p.repo)
         call == [NewCall("search") EXCEPT !.p = p]
     IN calls' = Append(calls,
          IF p = InvalidUrl THEN Throw(call, "invalid-url")
          ELSE IF ~exists THEN Throw(call, "repository-not-found")
          ELSE IF found = {} THEN [call EXCEPT !.pc = "sinsert"]
          ELSE LET id == SetMin(found)
               IN IF repositoryNeedsRefresh(records[id], now)
                    THEN [call EXCEPT !.pc = "wgen", !.id = id,
                                      !.snap = SnapOf(records[id])]
                    ELSE Settled([call EXCEPT
                                    !.pc = "done", !.id = id,
                                    !.returned = TRUE, !.result = "found",
                                    !.feeds = records[id].feeds]))
  /\ UNCHANGED <<Env, now, ticks, records, artifacts, faults, lastWrite>>

\* createRepository: insertRepository, then generateRSS inline
SearchInsert(c) ==
  /\ calls[c].op = "search"
  /\ calls[c].pc = "sinsert"
  /\ IF UrlIndexRejects(calls[c].p.fullUrl)
       THEN /\ calls' = [calls EXCEPT ![c] = Throw(@, "duplicate-key")]
            /\ UNCHANGED records
       ELSE /\ Len(records) < MaxRecords
            /\ records' = Append(records, NewSearchRecord(calls[c].p, now))
            /\ calls' = [calls EXCEPT
                 ![c].pc = "wgen",
                 ![c].id = Len(records) + 1,
                 ![c].created = TRUE,
                 ![c].snap = SnapOf(NewSearchRecord(calls[c].p, now))]
  /\ UNCHANGED <<Env, now, ticks, artifacts, faults, lastWrite>>

\* findRepositoryById after the inline pass, and the return of search
SearchRefind(c) ==
  /\ calls[c].op = "search"
  /\ calls[c].pc = "srefind"
  /\ calls' = [calls EXCEPT ![c] =
       Settled([@ EXCEPT !.pc = "done", !.returned = TRUE,
                         !.result = "found",
                         !.statusAtReturn = records[calls[c].id].status,
                         !.feeds = records[calls[c].id].feeds])]
  /\ UNCHANGED <<Env, now, ticks, records, artifacts, faults, lastWrite>>

(***************************************************************************)
(* repositories.search (V1, V2): a lookup that never creates or refreshes  *)
(***************************************************************************)
\* parseGitHubUrl, checkGitHubRepositoryExists (V2 only) and
\* findRepositoryByOwnerRepo; the stored document is returned as it is
SearchStored(u, response) ==
  /\ build \in {"V1", "V2"}
  /\ Len(calls) < MaxCalls
  /\ LET p == parseGitHubUrl(u)
         exists == build = "V1" \/ checkGitHubRepositoryExists(response)
         found == findRepositoryByOwnerRepo(p.owner, p.repo)
         call == [NewCall("search") EXCEPT !.p = p]
     IN calls' = Append(calls,
          IF p = InvalidUrl THEN Throw(call, "invalid-url")
          ELSE IF ~exists THEN Throw(call, "repository-not-found")
          ELSE IF found = {}
            THEN Settled([call EXCEPT !.pc = "done", !.returned = TRUE,
                                      !.result = "not-stored"])
            ELSE LET id == SetMin(found)
                 IN Settled([call EXCEPT
                               !.pc = "done", !.id = id, !.returned = TRUE,
                               !.result = "found",
                               !.statusAtReturn = records[id].status,
                               !.feeds = records[id].feeds]))
  /\ UNCHANGED <<Env, now, ticks, records, artifacts, faults, lastWrite>>

(***************************************************************************)
(* Time                                                                    *)
(***************************************************************************)
Tick(d) ==
  /\ ticks < MaxTicks
  /\ ticks' = ticks + 1
  /\ now' = now + d
  /\ UNCHANGED <<Env, records, calls, artifacts, faults, lastWrite>>

(***************************************************************************)
(* Specification                                                           *)
(***************************************************************************)
Next ==
  \/ \E u \in Urls : Create(u)
  \/ \E c \in 1..Len(calls) : CreateInsert(c)
  \/ \E c \in 1..Len(calls) : GenFind(c)
  \/ \E id \in 1..MaxRecords : GenerateRSS(id)
  \/ \E id \in 1..MaxRecords : GetFeedsWithCache(id)
  \/ \E id \in 1..MaxRecords : GetFeeds(id)
  \/ \E id \in 1..MaxRecords, args \in UpdateStatusArgs, ok \in BOOLEAN :
        UpdateStatus(id, args, ok)
  \/ \E c \in 1..Len(calls), ok \in BOOLEAN : WriteGenerating(c, ok)
  \/ \E c \in 1..Len(calls) : FetchFeeds(c)
  \/ \E c \in 1..Len(calls) : UploadAll(c)
  \/ \E c \in 1..Len(calls), ft \in FeedTypes, ok \in BOOLEAN :
        LateUpload(c, ft, ok)
  \/ \E c \in 1..Len(calls), ok \in BOOLEAN : WriteReady(c, ok)
  \/ \E c \in 1..Len(calls), ok \in BOOLEAN : WriteError(c, ok)
  \/ CronRun
  \/ \E c \in 1..Len(calls) : CronFeeds(c)
  \/ \E u \in Urls, response \in ExistenceResponses : Search(u, response)
  \/ \E c \in 1..Len(calls) : SearchInsert(c)
  \/ \E c \in 1..Len(calls) : SearchRefind(c)
  \/ \E u \in Urls, response \in ExistenceResponses :
        SearchStored(u, response)
  \/ \E d \in {FreshnessWindow - 1, FreshnessWindow} : Tick(d)

Spec == Init /\ [][Next]_vars

TypeOK ==
  /\ build \in {"V1", "V2", "P3"}
  /\ Len(records) <= MaxRecords
  /\ Len(calls) <= MaxCalls
  /\ \A i \in 1..Len(records) :
       records[i].status \in {a.status : a \in UpdateStatusArgs}

(***************************************************************************)
(* The staleness policy on its own: one stored document, one clock reading *)
(***************************************************************************)
NoDecision ==
  [made |-> FALSE, needsRefresh |-> FALSE, regenerates |-> FALSE,
   servesCache |-> FALSE]

InitStale ==
  /\ build = "P3"
  /\ s3Configured = TRUE
  /\ now \in 0..MaxClock
  /\ ticks = 0
  /\ \E status \in Statuses, lastUpdate \in {NoDate} \cup 0..now :
       records = << [NewSearchRecord(parseGitHubUrl(
                       HttpsGithubComSlash \o <<"o", "/", "r">>), 0)
                     EXCEPT !.status = status, !.lastUpdate = lastUpdate] >>
  /\ calls = <<>>
  /\ artifacts = {}
  /\ faults = 0
  /\ lastWrite = NoWrite
  /\ decision = NoDecision
  /\ io = None

\* the three call sites evaluate their staleness test on the document
Decide ==
  /\ ~decision.made
  /\ decision' =
       [made |-> TRUE,
        needsRefresh |-> repositoryNeedsRefresh(records[1], now),
        regenerates |-> getFeedsWithCacheRegenerates(records[1], now),
        servesCache |-> generateRSSServesCache(records[1], now)]
  /\ UNCHANGED <<build, s3Configured, now, ticks, records, calls, artifacts,
                 faults, lastWrite, io>>

NextStale == Decide

SpecStale == InitStale /\ [][NextStale]_vars

(***************************************************************************)
(* The GitHub and S3 clients on their own: one call, one answer            *)
(***************************************************************************)
Returned(list) == [threw |-> FALSE, list |-> list]
Thrown == [threw |-> TRUE, list |-> <<>>]

\* GitHubClient.fetchFeed (part_008): 404 gives [], any other failure throws
GitHubClientFetchFeed(response) ==
  IF response.net THEN Thrown
  ELSE IF ~ResponseOk(response.status)
    THEN IF response.status = 404 THEN Returned(<<>>) ELSE Thrown
    ELSE Returned(IF response.isArray THEN response.items ELSE <<>>)

\* GitHubService.fetchFeed (clients/github.ts): the same body inside
\* try/catch, the catch logs and returns []
GitHubServiceFetchFeed(response) ==
  LET inner == GitHubClientFetchFeed(response)
  IN IF inner.threw THEN Returned(<<>>) ELSE inner

\* the answer of one uploadAllRSSToS3 call: the keys of the mapping it
\* resolved with and their URLs (NoUrl is null), or a rejection
Resolved(keys, urls) == [threw |-> FALSE, keys |-> keys, urls |-> urls]
Rejected == [threw |-> TRUE, keys |-> {}, urls |-> NoFeeds]

\* result.Location of a successful upload
Location(repositoryName, ft) == feedUrl("s3", repositoryName, ft)

\* S3Service.uploadAllRSSToS3 (clients/s3.ts): uploadRSSToS3 rethrows and
\* Promise.all rejects when any upload fails
S3ServiceUploadAllRSSToS3(repositoryName, keys, fails) ==
  IF keys \cap fails # {}
    THEN Rejected
    ELSE Resolved(keys, [ft \in FeedTypes |->
                           IF ft \in keys THEN Location(repositoryName, ft)
                                          ELSE NoUrl])

\* uploadAllRSSToS3 (part_004): each upload in its own try/catch, a failed
\* one yields [feedType, null]
uploadAllRSSToS3(repositoryName, keys, fails) ==
  Resolved(keys, [ft \in FeedTypes |->
                    IF ft \in keys \ fails THEN Location(repositoryName, ft)
                                            ELSE NoUrl])

NoAnswer == [threw |-> FALSE, list |-> <<>>, keys |-> {}, urls |-> NoFeeds]

IoInputs ==
  [fn : {"fetchFeed"}, impl : {"GitHubService", "GitHubClient"},
   response : Responses, keys : {{}}, fails : {{}},
   done : {FALSE}, answer : {NoAnswer}]
    \cup
  {[fn |-> "uploadAllRSSToS3", impl |-> impl,
    response |-> [net |-> FALSE, status |-> 200, isArray |-> FALSE,
                  items |-> <<>>],
    keys |-> keys, fails |-> fails, done |-> FALSE, answer |-> NoAnswer] :
     impl \in {"S3Service", "part_004"},
     keys \in SUBSET FeedTypes, fails \in SUBSET FeedTypes}

InitClients ==
  /\ build = "V1"
  /\ s3Configured = TRUE
  /\ now = 0
  /\ ticks = 0
  /\ records = <<>>
  /\ calls = <<>>
  /\ artifacts = {}
  /\ faults = 0
  /\ lastWrite = NoWrite
  /\ decision = None
  /\ io \in {i \in IoInputs : i.fails \subseteq i.keys}

\* fetchFeed(owner, repo, feedType) receives the answer of fetch()
FetchFeed ==
  /\ io.fn = "fetchFeed"
  /\ ~io.done
  /\ LET r == IF io.impl = "GitHubService"
                THEN GitHubServiceFetchFeed(io.response)
                ELSE GitHubClientFetchFeed(io.response)
     IN io' = [io EXCEPT !.done = TRUE,
                         !.answer = [NoAnswer EXCEPT !.threw = r.threw,
                                                     !.list = r.list]]
  /\ UNCHANGED <<build, s3Configured, now, ticks, records, calls, artifacts,
                 faults, lastWrite, decision>>

\* uploadAllRSSToS3(repositoryName, feeds) settles
UploadAllRSSToS3 ==
  /\ io.fn = "uploadAllRSSToS3"
  /\ ~io.done
  /\ LET name == repoPath(<<"o">>, <<"r">>)
         r == IF io.impl = "S3Service"
                THEN S3ServiceUploadAllRSSToS3(name, io.keys, io.fails)
                ELSE uploadAllRSSToS3(name, io.keys, io.fails)
     IN io' = [io EXCEPT !.done = TRUE,
                         !.answer = [NoAnswer EXCEPT !.threw = r.threw,
                                                     !.keys = r.keys,
                                                     !.urls = r.urls]]
  /\ UNCHANGED <<build, s3Configured, now, ticks, records, calls, artifacts,
                 faults, lastWrite, decision>>

NextClients == FetchFeed \/ UploadAllRSSToS3

SpecClients == InitClients /\ [][NextClients]_vars

(***************************************************************************)
(* Rendering: one item list, one feed type, rendered once or twice         *)
(***************************************************************************)
MaxFetched == 21
MaxTokens == 2
PadWindow == 12
MaxRenders == 2

\* .slice(0, 20) and .substring(0, 500)
ItemCap == 20
DescriptionLimit == 500

\* the grave accent U+0060, which a TLA+ string cannot hold
Backquote == "bq"

CodeBlock == <<"[", "c", "o", "d", "e", " ", "b", "l", "o", "c", "k", "]">>
Dots == <<".", ".", ".">>
NoDescriptionProvided == <<"N", "o", " ", "d", "e", "s", "c", "r", "i", "p", "t", "i", "o", "n", " ", "p", "r", "o", "v", "i", "d", "e", "d">>
NoReleaseNotesProvided == <<"N", "o", " ", "r", "e", "l", "e", "a", "s", "e", " ", "n", "o", "t", "e", "s", " ", "p", "r", "o", "v", "i", "d", "e", "d">>
NoDescription == <<"N", "o", " ", "d", "e", "s", "c", "r", "i", "p", "t", "i", "o", "n">>

\* index of the first ``` at or after position from, 0 when there is none
FenceFrom(s, from) ==
  LET at == {j \in from..(Len(s) - 2) :
               s[j] = Backquote /\ s[j + 1] = Backquote /\ s[j + 2] = Backquote}
  IN IF at = {} THEN 0 ELSE SetMin(at)

\* index of the first character c at or after position from, 0 when none
CharFrom(s, c, from) ==
  LET at == {j \in from..Len(s) : s[j] = c}
  IN IF at = {} THEN 0 ELSE SetMin(at)

\* last index of the match of /```[\s\S]*?```/ that starts at i, 0 if none
FencedEnd(s, i) ==
  IF FenceFrom(s, i) # i THEN 0
  ELSE LET close == FenceFrom(s, i + 3)
       IN IF close = 0 THEN 0 ELSE close + 2

\* last index of the match of /`([^`]+)`/ that starts at i, 0 if none
InlineEnd(s, i) ==
  IF i > Len(s) \/ s[i] # Backquote THEN 0
  ELSE LET close == CharFrom(s, Backquote, i + 1)
       IN IF close < i + 2 THEN 0 ELSE close

\* index of the ] in the match of /\[([^\]]+)\]\([^)]+\)/ starting at i
LinkTextEnd(s, i) ==
  IF i > Len(s) \/ s[i] # "[" THEN 0
  ELSE LET close == CharFrom(s, "]", i + 1)
       IN IF close < i + 2 \/ close + 1 > Len(s) \/ s[close + 1] # "("
            THEN 0 ELSE close

\* last index of the match of /\[([^\]]+)\]\([^)]+\)/ starting at i
LinkEnd(s, i) ==
  LET text == LinkTextEnd(s, i)
  IN IF text = 0 THEN 0
     ELSE LET close == CharFrom(s, ")", text + 2)
          IN IF close < text + 3 THEN 0 ELSE close

RECURSIVE ReplaceFenced(_, _)
\* .replace(/```[\s\S]*?```/g, '[code block]') from position from on
ReplaceFenced(s, from) ==
  LET starts == {i \in from..Len(s) : s[i] = Backquote /\ FencedEnd(s, i) # 0}
  IN IF starts = {} THEN SubSeq(s, from, Len(s))
     ELSE LET i == SetMin(starts)
          IN SubSeq(s, from, i - 1) \o CodeBlock
               \o ReplaceFenced(s, FencedEnd(s, i) + 1)

RECURSIVE ReplaceInline(_, _)
\* .replace(/`([^`]+)`/g, '$1') from position from on
ReplaceInline(s, from) ==
  LET starts == {i \in from..Len(s) : s[i] = Backquote /\ InlineEnd(s, i) # 0}
  IN IF starts = {} THEN SubSeq(s, from, Len(s))
     ELSE LET i == SetMin(starts)
              e == InlineEnd(s, i)
          IN SubSeq(s, from, i - 1) \o SubSeq(s, i + 1, e - 1)
               \o ReplaceInline(s, e + 1)

RECURSIVE ReplaceLinks(_, _)
\* .replace(/\[([^\]]+)\]\([^)]+\)/g, '$1') from position from on
ReplaceLinks(s, from) ==
  LET starts == {i \in from..Len(s) : s[i] = "[" /\ LinkEnd(s, i) # 0}
  IN IF starts = {} THEN SubSeq(s, from, Len(s))
     ELSE LET i == SetMin(starts)
          IN SubSeq(s, from, i - 1)
               \o SubSeq(s, i + 1, LinkTextEnd(s, i) - 1)
               \o ReplaceLinks(s, LinkEnd(s, i) + 1)

IsNoMarker(c) == c \notin {"#", "*", "_"}

\* the four replacements of cleanDescription, before .substring(0, 500)
Cleaned(description) ==
  SelectSeq(ReplaceLinks(ReplaceInline(ReplaceFenced(description, 1), 1), 1),
            IsNoMarker)

\* .substring(0, 500)
substring500(s) ==
  IF Len(s) > DescriptionLimit THEN SubSeq(s, 1, DescriptionLimit) ELSE s

\* cleanDescription (methods.ts 275-284, part_003 201-210, part_007 311-319)
cleanDescription(description) ==
  LET cleaned == substring500(Cleaned(description))
  IN IF Len(cleaned) < Len(description) THEN cleaned \o Dots ELSE cleaned

\* the description generateRSSXML of the cron job writes
cronDescription(itemDescription) ==
  substring500(itemDescription)
    \o (IF Len(itemDescription) > DescriptionLimit THEN Dots ELSE <<>>)

\* one element of the array GitHub answers with; <<>> is an empty or
\* missing string, NoDate a missing date
Item(i, title, body, published) ==
  [number |-> i, title |-> title, html_url |-> <<"u", i>>, body |-> body,
   created_at |-> i, published_at |-> published, tag_name |-> <<"v">>,
   name |-> title]

\* a template literal that joins a prefix, a number and text
Title(prefix, number, text) ==
  [prefix |-> prefix, number |-> number, text |-> text]

OrElse(value, fallback) == IF value = <<>> THEN fallback ELSE value

\* processRSSItem (methods.ts 237-273)
processRSSItem(item, feedType) ==
  CASE feedType = "issues" ->
         [title |-> Title("Issue #", item.number, item.title),
          link |-> item.html_url,
          description |-> OrElse(item.body, NoDescriptionProvided),
          date |-> item.created_at]
    [] feedType = "pullRequests" ->
         [title |-> Title("Pull Request #", item.number, item.title),
          link |-> item.html_url,
          description |-> OrElse(item.body, NoDescriptionProvided),
          date |-> item.created_at]
    [] feedType = "discussions" ->
         [title |-> IF item.title # <<>>
                      THEN Title("", 0, item.title)
                      ELSE Title("Discussion #", item.number, <<>>),
          link |-> item.html_url,
          description |-> OrElse(item.body, NoDescriptionProvided),
          date |-> item.created_at]
    [] feedType = "releases" ->
         [title |-> Title("Release ", 0,
                          item.tag_name \o <<":", " ">>
                            \o OrElse(item.name, item.tag_name)),
          link |-> item.html_url,
          description |-> OrElse(item.body, NoReleaseNotesProvided),
          date |-> IF item.published_at # NoDate THEN item.published_at
                                                 ELSE item.created_at]

\* the switch inside generateRSSXML of the cron job
cronItem(item, type) ==
  CASE type = "issues" ->
         [title |-> Title("Issue #", item.number, item.title),
          link |-> item.html_url,
          description |-> OrElse(item.body, NoDescription),
          date |-> item.created_at]
    [] type = "pullRequests" ->
         [title |-> Title("PR #", item.number, item.title),
          link |-> item.html_url,
          description |-> OrElse(item.body, NoDescription),
          date |-> item.created_at]
    [] type = "discussions" ->
         [title |-> Title("", 0, item.title),
          link |-> item.html_url,
          description |-> OrElse(item.body, NoDescription),
          date |-> item.created_at]
    [] type = "releases" ->
         [title |-> Title("Release ", 0,
                          item.tag_name \o <<":", " ">>
                            \o OrElse(item.name, item.tag_name)),
          link |-> item.html_url,
          description |-> OrElse(item.body, NoDescription),
          date |-> item.created_at]

\* new Date(d).toUTCString()
toUTCString(d) == <<"UTC", d>>

\* one <item> element
ItemElement(p, description) ==
  [title |-> p.title, link |-> p.link, description |-> description,
   pubDate |-> toUTCString(p.date), guid |-> p.link]

\* the document both renderers return: the channel elements and the items
Channel(owner, repo, feedType, link, t, language, items) ==
  [title |-> <<owner, repo, feedType>>, link |-> link,
   description |-> <<feedType, owner, repo>>,
   lastBuildDate |-> toUTCString(t),
   generator |-> "GitHub RSS Generator v1.0", language |-> language,
   items |-> items]

\* githubData.slice(0, 20)
slice20(githubData) ==
  IF Len(githubData) > ItemCap THEN SubSeq(githubData, 1, ItemCap)
                               ELSE githubData

\* generateRSSWithGitHubData (methods.ts 286-315), t the reading of
\* new Date()
generateRSSWithGitHubData(repository, feedType, githubData, t) ==
  LET data == slice20(githubData)
      rssItems ==
        [i \in 1..Len(data) |->
           LET p == processRSSItem(data[i], feedType)
           IN ItemElement(p, cleanDescription(p.description))]
  IN Channel(repository.owner, repository.repo, feedType, repository.url,
             t, "en-us", rssItems)

\* generateRSSXML (update-feeds.js 102-157) with the feedInfo that
\* generateFeedsForRepository builds
generateRSSXML(items, repository, type, t) ==
  LET rssItems ==
        [i \in 1..Len(items) |->
           LET p == cronItem(items[i], type)
           IN ItemElement(p, cronDescription(p.description))]
  IN Channel(repository.owner, repository.repo, type, repository.url,
             t, None, rssItems)

\* Pad(k): k letters without any marker
Pad(k) == [i \in 1..k |-> "a"]

Tokens ==
  {<<"a">>, <<"#">>,
   <<Backquote, "a", Backquote>>,
   <<Backquote, Backquote, Backquote, Backquote, Backquote, Backquote>>,
   <<"[", "a", "]", "(", "a", ")">>,
   <<"[", "a", "]">>}

RECURSIVE TokenStrings(_)
\* the concatenations of at most n tokens
TokenStrings(n) ==
  IF n = 0 THEN {<<>>}
  ELSE TokenStrings(n - 1)
         \cup {s \o t : s \in TokenStrings(n - 1), t \in Tokens}

\* item bodies: letters up to around the limit, then markdown
Descriptions ==
  {Pad(k) \o tail :
     k \in {0} \cup ((DescriptionLimit - PadWindow)..(DescriptionLimit + 1)),
     tail \in TokenStrings(MaxTokens)}

\* answers of GitHub: lists of up to MaxFetched items, and single items
\* over the optional fields
ItemLists ==
  {[i \in 1..n |-> Item(i, <<"t">>, <<"b">>, NoDate)] : n \in 0..MaxFetched}
    \cup {<<Item(1, title, body, published)>> :
            title \in {<<>>, <<"t">>}, body \in TokenStrings(1),
            published \in {NoDate, 7}}

RenderedRepository ==
  SnapOf(NewRecord(parseGitHubUrl(HttpsGithubComSlash \o <<"o", "/", "r">>),
                   0))

RenderInputs ==
  [fn : {"render"}, feedType : FeedTypes, githubData : ItemLists,
   description : {<<>>}, outs : {<<>>}]
    \cup [fn : {"cleanDescription"}, feedType : {"issues"},
          githubData : {<<>>}, description : Descriptions, outs : {<<>>}]

InitRender ==
  /\ build = "V1"
  /\ s3Configured = TRUE
  /\ now = 0
  /\ ticks = 0
  /\ records = <<>>
  /\ calls = <<>>
  /\ artifacts = {}
  /\ faults = 0
  /\ lastWrite = NoWrite
  /\ decision = None
  /\ io \in RenderInputs

\* a pass of the server renders the list (generateRSSFeeds), the clock
\* may move on
ServerRender(d) ==
  /\ io.fn = "render"
  /\ Len(io.outs) < MaxRenders
  /\ io' = [io EXCEPT !.outs = Append(@,
              [by |-> "generateRSSWithGitHubData",
               xml |-> generateRSSWithGitHubData(RenderedRepository,
                         io.feedType, io.githubData, now)])]
  /\ now' = now + d
  /\ UNCHANGED <<build, s3Configured, ticks, records, calls, artifacts,
                 faults, lastWrite, decision>>

\* a pass of the cron job renders the list (generateFeedsForRepository)
CronRender(d) ==
  /\ io.fn = "render"
  /\ Len(io.outs) < MaxRenders
  /\ io' = [io EXCEPT !.outs = Append(@,
              [by |-> "generateRSSXML",
               xml |-> generateRSSXML(io.githubData, RenderedRepository,
                                      io.feedType, now)])]
  /\ now' = now + d
  /\ UNCHANGED <<build, s3Configured, ticks, records, calls, artifacts,
                 faults, lastWrite, decision>>

\* cleanDescription(itemDescription) returns
CleanDescription ==
  /\ io.fn = "cleanDescription"
  /\ io.outs = <<>>
  /\ io' = [io EXCEPT !.outs = <<cleanDescription(io.description)>>]
  /\ UNCHANGED <<build, s3Configured, now, ticks, records, calls, artifacts,
                 faults, lastWrite, decision>>

NextRender ==
  \/ \E d \in 0..1 : ServerRender(d)
  \/ \E d \in 0..1 : CronRender(d)
  \/ CleanDescription

SpecRender == InitRender /\ [][NextRender]_vars

(***************************************************************************)
(* parseGitHubUrl on its own: one string, parsed and parsed again          *)
(***************************************************************************)
UrlTokens ==
  {DotGit, <<"/">>, <<"/", "p">>, <<"?", "q">>, <<"#", "f">>}

RECURSIVE UrlTails(_)
\* what follows the repository name: at most n tokens
UrlTails(n) ==
  IF n = 0 THEN {<<>>}
  ELSE UrlTails(n - 1) \cup {s \o t : s \in UrlTails(n - 1), t \in UrlTokens}

\* the strings a caller may pass as githubUrl
ParseInputs ==
  {prefix \o owner \o <<"/", "r">> \o tail :
     prefix \in {HttpsGithubComSlash, GithubComSlash},
     owner \in {<<"o">>, <<"O">>},
     tail \in UrlTails(MaxTokens)}
    \cup BadUrls

InitParse ==
  /\ build = "V1"
  /\ s3Configured = TRUE
  /\ now = 0
  /\ ticks = 0
  /\ records = <<>>
  /\ calls = <<>>
  /\ artifacts = {}
  /\ faults = 0
  /\ lastWrite = NoWrite
  /\ decision = None
  /\ io \in [fn : {"parseGitHubUrl"}, githubUrl : ParseInputs,
             parsed : {<<>>}]

\* parseGitHubUrl(githubUrl) returns or throws invalid-url
ParseGitHubUrl ==
  /\ io.fn = "parseGitHubUrl"
  /\ io.parsed = <<>>
  /\ io' = [io EXCEPT !.parsed = <<parseGitHubUrl(io.githubUrl)>>]
  /\ UNCHANGED <<build, s3Configured, now, ticks, records, calls, artifacts,
                 faults, lastWrite, decision>>

\* the returned fullUrl is passed to parseGitHubUrl again
ParseFullUrl ==
  /\ io.fn = "parseGitHubUrl"
  /\ Len(io.parsed) = 1
  /\ io.parsed[1] # InvalidUrl
  /\ io' = [io EXCEPT !.parsed = Append(@, parseGitHubUrl(@[1].fullUrl))]
  /\ UNCHANGED <<build, s3Configured, now, ticks, records, calls, artifacts,
                 faults, lastWrite, decision>>

NextParse == ParseGitHubUrl \/ ParseFullUrl

SpecParse == InitParse /\ [][NextParse]_vars

(***************************************************************************)
(* The cron process on its own: one GitHubRSSGenerator, its connection,    *)
(* the startup run and the runs of the schedule                            *)
(***************************************************************************)
MaxRuns == 2

\* the repositories already stored when the process starts
CronRepos ==
  [i \in 1..MaxRecords |->
     HttpsGithubComSlash \o <<"o", "/">> \o [k \in 1..i |-> "r"]]

\* this.client (0 is null), the clients made so far and the closed ones
NoConnection == [client |-> 0, opened |-> 0, closed |-> {}]

\* this.db belongs to a client that was closed: every operation throws
ConnectionClosed == io.client \in io.closed

\* the feed types whose saveRSSFile throws in one generateFeedsForRepository
SaveScenarios == {{}, {"issues"}, FeedTypes}

\* what GitHub answers to the four fetches of one generateFeedsForRepository
CronFetchScenarios ==
  {[ft \in FeedTypes |-> "ok"],
   [ft \in FeedTypes |-> IF ft = "issues" THEN "err" ELSE "ok"],
   [ft \in FeedTypes |-> "err"]}

InitCron ==
  /\ build = "V1"
  /\ s3Configured = TRUE
  /\ now = 0
  /\ ticks = 0
  /\ \E n \in 0..MaxRecords :
       \E status \in [1..n -> Statuses] :
         records = [i \in 1..n |->
                      [NewRecord(parseGitHubUrl(CronRepos[i]), 0)
                         EXCEPT !.status = status[i]]]
  /\ calls = <<>>
  /\ artifacts = {}
  /\ faults = 0
  /\ lastWrite = NoWrite
  /\ decision = None
  /\ io = NoConnection

\* main calls processAllPendingRepositories once on startup; the callback
\* of cron.schedule calls it again, whether or not an earlier run has ended
ProcessAllPendingRepositories ==
  /\ Len(calls) < MaxRuns
  /\ calls' = Append(calls, [NewCall("cron") EXCEPT !.pc = "connect"])
  /\ UNCHANGED <<Env, now, ticks, records, artifacts, faults, lastWrite>>

\* connect(): this.client = new MongoClient(...), this.db = client.db()
Connect(r) ==
  /\ calls[r].pc = "connect"
  /\ io' = [io EXCEPT !.client = io.opened + 1, !.opened = io.opened + 1]
  /\ calls' = [calls EXCEPT ![r].pc = "select"]
  /\ UNCHANGED <<build, s3Configured, decision, now, ticks, records,
                 artifacts, faults, lastWrite>>

\* a for loop that ends after its first repository
CronNextLeavingLoop(call) ==
  [call EXCEPT !.pc = "disconnect", !.queue = <<>>, !.id = 0,
               !.feeds = NoFeeds, !.upfail = {}, !.err = None]

\* the next repository of the for loop, or the finally block
CronNext(call) ==
  LET rest == Tail(call.queue)
  IN IF rest = <<>>
       THEN [call EXCEPT !.pc = "disconnect", !.queue = <<>>, !.id = 0,
                         !.feeds = NoFeeds, !.upfail = {}, !.err = None]
       ELSE [call EXCEPT !.pc = "wgen", !.queue = rest, !.id = Head(rest),
                         !.feeds = NoFeeds, !.upfail = {}, !.err = None]

\* getPendingRepositories() through this.db; an empty list returns
SelectPending(r) ==
  /\ calls[r].pc = "select"
  /\ calls' = [calls EXCEPT ![r] =
       IF ConnectionClosed
         THEN [@ EXCEPT !.pc = "disconnect", !.result = "job-failed"]
         ELSE IF getPendingRepositories = <<>>
           THEN [@ EXCEPT !.pc = "disconnect"]
           ELSE [@ EXCEPT !.pc = "wgen", !.queue = getPendingRepositories,
                          !.id = Head(getPendingRepositories)]]
  /\ UNCHANGED <<Env, now, ticks, records, artifacts, faults, lastWrite>>

\* generateFeedsForRepository: updateRepositoryStatus(_id, 'generating')
CronWriteGenerating(r) ==
  /\ calls[r].pc = "wgen"
  /\ IF ConnectionClosed
       THEN /\ calls' = [calls EXCEPT ![r] =
                 [@ EXCEPT !.pc = "werr", !.err = "store-error"]]
            /\ UNCHANGED records
       ELSE /\ records' = [records EXCEPT ![calls[r].id] =
                 updateRepositoryStatus(@, "generating", NoFields, now)]
            /\ calls' = [calls EXCEPT ![r].pc = "cfeeds"]
  /\ UNCHANGED <<Env, now, ticks, artifacts, faults, lastWrite>>

\* the loop over the four feed types: a failed fetch gives [] and an empty
\* feed is rendered from it, a failed saveRSSFile is caught and gives
\* feeds[type] = null
CronGenerateFeeds(r) ==
  /\ calls[r].pc = "cfeeds"
  /\ \E out \in CronFetchScenarios : \E unsaved \in SaveScenarios :
       LET key == records[calls[r].id].owner \o <<"/">>
                    \o records[calls[r].id].repo
           rss == [ft \in FeedTypes |-> Rendered(out[ft])]
       IN /\ artifacts' = PutAll(artifacts, key, FeedTypes \ unsaved, rss)
          /\ calls' = [calls EXCEPT ![r] =
               [@ EXCEPT !.pc = "wready", !.upfail = unsaved,
                         !.feeds = [ft \in FeedTypes |->
                                      IF ft \in unsaved THEN NoUrl
                                      ELSE feedUrl("local", key, ft)]]]
  /\ UNCHANGED <<Env, now, ticks, records, faults, lastWrite>>

\* updateRepositoryStatus(_id, 'ready', feeds)
CronWriteReady(r) ==
  /\ calls[r].pc = "wready"
  /\ IF ConnectionClosed
       THEN /\ calls' = [calls EXCEPT ![r] =
                 [@ EXCEPT !.pc = "werr", !.err = "store-error"]]
            /\ UNCHANGED records
       ELSE /\ records' = [records EXCEPT ![calls[r].id] =
                 updateRepositoryStatus(@, "ready",
                   Fields(TRUE, calls[r].feeds, FALSE, None), now)]
            /\ calls' = [calls EXCEPT ![r] = CronNext(@)]
  /\ UNCHANGED <<Env, now, ticks, artifacts, faults, lastWrite>>

\* the catch block: updateRepositoryStatus(_id, 'error', null, message);
\* when this throws too, the catch of processAllPendingRepositories ends
\* the run
CronWriteError(r) ==
  /\ calls[r].pc = "werr"
  /\ IF ConnectionClosed
       THEN /\ calls' = [calls EXCEPT ![r] =
                 [@ EXCEPT !.pc = "disconnect", !.result = "job-failed"]]
            /\ UNCHANGED records
       ELSE /\ records' = [records EXCEPT ![calls[r].id] =
                 updateRepositoryStatus(@, "error",
                   Fields(FALSE, NoFeeds, TRUE, calls[r].err), now)]
            /\ calls' = [calls EXCEPT ![r] = CronNext(@)]
  /\ UNCHANGED <<Env, now, ticks, artifacts, faults, lastWrite>>

\* finally: disconnect() closes this.client, whichever run made it
Disconnect(r) ==
  /\ calls[r].pc = "disconnect"
  /\ io' = [io EXCEPT !.closed = @ \cup {io.client}]
  /\ calls' = [calls EXCEPT ![r] =
       [@ EXCEPT !.pc = "done", !.returned = TRUE, !.queue = <<>>,
                 !.id = 0]]
  /\ UNCHANGED <<build, s3Configured, decision, now, ticks, records,
                 artifacts, faults, lastWrite>>

NextCron ==
  \/ ProcessAllPendingRepositories
  \/ \E r \in 1..Len(calls) : Connect(r)
  \/ \E r \in 1..Len(calls) : SelectPending(r)
  \/ \E r \in 1..Len(calls) : CronWriteGenerating(r)
  \/ \E r \in 1..Len(calls) : CronGenerateFeeds(r)
  \/ \E r \in 1..Len(calls) : CronWriteReady(r)
  \/ \E r \in 1..Len(calls) : CronWriteError(r)
  \/ \E r \in 1..Len(calls) : Disconnect(r)

SpecCron == InitCron /\ [][NextCron]_vars

\* the continuations of run r: each awaited promise settles and the event
\* loop runs what follows it
RunStep(r) ==
  /\ r \in 1..Len(calls)
  /\ \/ Connect(r)
     \/ SelectPending(r)
     \/ CronWriteGenerating(r)
     \/ CronGenerateFeeds(r)
     \/ CronWriteReady(r)
     \/ CronWriteError(r)
     \/ Disconnect(r)

FairSpecCron == SpecCron /\ \A r \in 1..MaxRuns : WF_vars(RunStep(r))

(***************************************************************************)
(* The /api/rss handler on its own: one request, one answer                *)
(***************************************************************************)
MaxUrlTokens == 4

DotXml == <<".", "x", "m", "l">>

\* index of the first occurrence of t in s at or after from, 0 when none
IndexOf(s, t, from) ==
  LET at == {i \in from..(Len(s) - Len(t) + 1) :
               SubSeq(s, i, i + Len(t) - 1) = t}
  IN IF at = {} THEN 0 ELSE SetMin(at)

RECURSIVE SplitFrom(_, _)
\* String.prototype.split('/') of the part of s that starts at from
SplitFrom(s, from) ==
  LET slash == IndexOf(s, <<"/">>, from)
  IN IF slash = 0 THEN <<SubSeq(s, from, Len(s))>>
     ELSE <<SubSeq(s, from, slash - 1)>> \o SplitFrom(s, slash + 1)

split(s) == SplitFrom(s, 1)

\* .filter(Boolean) on an array of strings
filterBoolean(parts) == SelectSeq(parts, LAMBDA part : part # <<>>)

\* .replace('.xml', ''): the first occurrence only
replaceDotXml(s) ==
  LET i == IndexOf(s, DotXml, 1)
  IN IF i = 0 THEN s
     ELSE SubSeq(s, 1, i - 1) \o SubSeq(s, i + Len(DotXml), Len(s))

\* what a handler did with the request: status 0 is next()
Answer(status, repo, feed) == [status |-> status, repo |-> repo, feed |-> feed]
NoAnswerYet == Answer(0 - 1, <<>>, <<>>)

\* the handler of server/main.ts
apiRssHandler(method, url) ==
  IF method # "GET" \/ ~EndsWith(url, DotXml) THEN Answer(0, <<>>, <<>>)
  ELSE LET urlParts == split(url)
       IN IF Len(urlParts) # 2 THEN Answer(400, <<>>, <<>>)
          ELSE Answer(302, urlParts[1], replaceDotXml(urlParts[2]))

\* the handler of part_010: s3 is what the fetch of the S3 object gives
\* ("ok", "missing" for a response that is not ok, "throws")
apiRssHandlerS3(method, url, s3) ==
  IF method # "GET" \/ ~EndsWith(url, DotXml) THEN Answer(0, <<>>, <<>>)
  ELSE LET urlParts == filterBoolean(split(url))
       IN IF Len(urlParts) # 2 THEN Answer(400, <<>>, <<>>)
          ELSE Answer(IF s3 = "ok" THEN 200 ELSE 302,
                      urlParts[1], replaceDotXml(urlParts[2]))

UrlPieces == {<<"/">>, <<"a">>, DotXml}

RECURSIVE UrlRests(_)
\* the concatenations of at most n pieces
UrlRests(n) ==
  IF n = 0 THEN {<<>>}
  ELSE UrlRests(n - 1) \cup {s \o t : s \in UrlRests(n - 1), t \in UrlPieces}

\* req.url below the mount point always starts with a slash
RequestUrls == {<<"/">> \o rest : rest \in UrlRests(MaxUrlTokens)}

InitHandler ==
  /\ build = "V1"
  /\ s3Configured = TRUE
  /\ now = 0
  /\ ticks = 0
  /\ records = <<>>
  /\ calls = <<>>
  /\ artifacts = {}
  /\ faults = 0
  /\ lastWrite = NoWrite
  /\ decision = None
  /\ io \in [fn : {"apiRss"}, method : {"GET", "POST"}, url : RequestUrls,
             answer : {NoAnswerYet}]

\* a request reaches the handler registered by server/main.ts
HandleRequest ==
  /\ io.fn = "apiRss"
  /\ io.answer = NoAnswerYet
  /\ io' = [io EXCEPT !.answer = apiRssHandler(io.method, io.url)]
  /\ UNCHANGED <<build, s3Configured, now, ticks, records, calls, artifacts,
                 faults, lastWrite, decision>>

\* a request reaches the handler registered by part_010
HandleRequestS3 ==
  /\ io.fn = "apiRss"
  /\ io.answer = NoAnswerYet
  /\ \E s3 \in {"ok", "missing", "throws"} :
       io' = [io EXCEPT !.answer = apiRssHandlerS3(io.method, io.url, s3)]
  /\ UNCHANGED <<build, s3Configured, now, ticks, records, calls, artifacts,
                 faults, lastWrite, decision>>

NextHandler == HandleRequest \/ HandleRequestS3

SpecHandler == InitHandler /\ [][NextHandler]_vars

(***************************************************************************)
(* The artifact key on its own: two repositories published one after the   *)
(* other                                                                   *)
(***************************************************************************)
MaxNameLen == 3

\* owner and repository names: letters and inner hyphens
Names ==
  {name \in UNION {[1..n -> {"a", "-"}] : n \in 1..MaxNameLen} :
     name[1] # "-" /\ name[Len(name)] # "-"}

Identities == [owner : Names, repo : Names]

\* the feed files of one pass, which name their repository in the channel
FilesOf(identity) == [ft \in FeedTypes |-> <<identity.owner, identity.repo>>]

InitKeys ==
  /\ build = "V2"
  /\ s3Configured = TRUE
  /\ now = 0
  /\ ticks = 0
  /\ records = <<>>
  /\ calls = <<>>
  /\ artifacts = {}
  /\ faults = 0
  /\ lastWrite = NoWrite
  /\ decision = None
  /\ io \in [fn : {"publish"}, repos : Identities \X Identities,
             published : {0}]

\* a pass for the next repository uploads its four files under
\* rss/${owner}-${repo}/
PublishFeeds ==
  /\ io.fn = "publish"
  /\ io.published < Len(io.repos)
  /\ LET identity == io.repos[io.published + 1]
     IN artifacts' = PutAll(artifacts,
                            repoPath(identity.owner, identity.repo),
                            FeedTypes, FilesOf(identity))
  /\ io' = [io EXCEPT !.published = @ + 1]
  /\ UNCHANGED <<build, s3Configured, now, ticks, records, calls, faults,
                 lastWrite, decision>>

NextKeys == PublishFeeds

SpecKeys == InitKeys /\ [][NextKeys]_vars

(***************************************************************************)
(* Claims                                                                  *)
(***************************************************************************)
ServerOps == {"create", "generateRSS", "search"}
PassOps == {"create", "generateRSS", "cron"}

AllowedEdges ==
  { <<"pending", "generating">>, <<"ready", "generating">>,
    <<"error", "generating">>, <<"generating", "ready">>,
    <<"generating", "error">> }

\* the passes in flight on document id
PassesOn(id) == {c \in 1..Len(calls) : calls[c].id = id /\ InPass(c)}

\* no client has called repositories.updateStatus so far
NoClientWrites == \A c \in 1..Len(calls) : calls[c].op # "updateStatus"

\* C1: every status write made by a pass of repositories.create,
\* repositories.generateRSS or the cron job follows one of the edges
\* pending->generating, ready->generating, error->generating,
\* generating->ready, generating->error (stated for the behaviours in which
\* GitHub, S3, the file system and the collection always answer with success
\* and no client calls repositories.updateStatus)
C1_StatusWritesFollowEdges ==
  (faults = 0 /\ NoClientWrites /\ lastWrite.id # 0
     /\ lastWrite.op \in PassOps)
    => <<lastWrite.old, lastWrite.new>> \in AllowedEdges

\* C2: generating is never a rest state: once no pass is running for a
\* document, its status is not generating (stated for the behaviours in
\* which no client calls repositories.updateStatus)
C2_GeneratingIsNoRestState ==
  \A id \in 1..Len(records) :
    (PassesOn(id) = {} /\ NoClientWrites)
      => records[id].status # "generating"

\* C3: a pass of generateRSSAndUpdateRepository (V1) that runs without the
\* S3 configuration never commits the document as ready, and once it has
\* ended the document has status error with the failure message
C3_MissingConfigEndsInError ==
  (build = "V1" /\ ~s3Configured /\ lastWrite.id # 0
     /\ lastWrite.op \in ServerOps)
    => /\ lastWrite.new # "ready"
       /\ (\A c \in 1..Len(calls) : Finished(c))
            => /\ records[lastWrite.id].status = "error"
               /\ records[lastWrite.id].error # None

\* C4: the error field is present only if the status is error; stated for
\* the case the claim singles out: after the commit generating -> ready the
\* document has no error field (error -> generating -> ready, all three
\* written by passes)
C4_ErrorOnlyWithStatusError ==
  (NoClientWrites /\ lastWrite.old = "generating" /\ lastWrite.new = "ready")
    => lastWrite.error = None

\* C5: when the fetch of releases, and of no other feed type, fails with a
\* non-404 error, the feeds mapping committed with status ready has URLs for
\* issues, pullRequests and discussions and none for releases
C5_FailedFetchLeavesFeedUnset ==
  (lastWrite.new = "ready" /\ lastWrite.failed = {"releases"})
    => /\ lastWrite.feeds["releases"] = NoUrl
       /\ \A ft \in FeedTypes \ {"releases"} : lastWrite.feeds[ft] # NoUrl

\* C6: a feed type whose upload failed is never recorded with a URL in the
\* feeds mapping committed with status ready
C6_FailedUploadLeavesFeedUnset ==
  lastWrite.new = "ready"
    => \A ft \in lastWrite.upfail : lastWrite.feeds[ft] = NoUrl

\* C7: for each document at most one generation pass is between its
\* 'generating' write and its terminal write
C7_AtMostOnePassPerRecord ==
  \A id \in 1..Len(records) : Cardinality(PassesOn(id)) <= 1

\* C8 as claimed: every operation that created a document returns without
\* waiting for the generation pass, that is while the document is still
\* pending or generating
C8_CreatorNeverWaits ==
  \A c \in 1..Len(calls) :
    (calls[c].created /\ calls[c].returned
       /\ calls[c].result \in {"created", "found"})
      => calls[c].statusAtReturn \in {"pending", "generating"}

\* C8, the state part: repositories.create has returned, with the document
\* still pending, before its deferred pass does anything; a search that
\* created the document returns only after its inline pass committed the
\* feeds, and never while the document is pending
C8_ReturnOfCreator ==
  \A c \in 1..Len(calls) :
    /\ (calls[c].op = "create" /\ calls[c].pc \notin {"cinsert", "thrown"})
         => /\ calls[c].returned
            /\ calls[c].created
            /\ calls[c].statusAtReturn = "pending"
    /\ (calls[c].op = "create" /\ calls[c].pc = "cinsert")
         => ~calls[c].returned /\ calls[c].id = 0
    /\ (calls[c].op = "search" /\ calls[c].created)
         => IF calls[c].returned /\ calls[c].result = "found"
              THEN /\ calls[c].statusAtReturn \in {"ready", "generating"}
                   /\ calls[c].feeds # NoFeeds
              ELSE calls[c].returned => calls[c].pc = "thrown"

\* C8, the step part: a document enters the collection with status pending
\* and an empty feeds mapping, and no pass has written to it
C8_InsertedPending ==
  Len(records') > Len(records)
    => /\ Len(records') = Len(records) + 1
       /\ records'[Len(records')].status = "pending"
       /\ records'[Len(records')].feeds = NoFeeds
       /\ lastWrite'.id # Len(records')
       /\ \A c \in 1..Len(calls') :
            calls'[c].id = Len(records') => calls'[c].pc \in {"find", "wgen"}

\* C8 (amended): create and createRepository insert the document pending
\* with empty feeds and start the pass only after the insert;
\* repositories.create returns at once, the pass being deferred, while
\* createRepository inside repositories.search runs the pass inline and
\* search returns only after it
C8_CreateDefersSearchWaits ==
  []C8_ReturnOfCreator /\ [][C8_InsertedPending]_vars

\* C8 witness: repositories.create has returned and the document it
\* inserted is still pending
C8_Witness ==
  \E c \in 1..Len(calls) :
    /\ calls[c].op = "create"
    /\ calls[c].returned
    /\ calls[c].pc = "find"
    /\ records[calls[c].id].status = "pending"

\* C9: no two documents share the (owner, repo) pair or the url
C9_IdentityIsUnique ==
  \A i, j \in 1..Len(records) :
    i # j => /\ <<records[i].owner, records[i].repo>>
                  # <<records[j].owner, records[j].repo>>
             /\ records[i].url # records[j].url

Age == now - records[1].lastUpdate

\* C10 as claimed: for a ready document the three staleness tests are true
\* exactly when lastUpdate is absent or more than 30 minutes old, and
\* repositoryNeedsRefresh is false for every other status
C10_StaleWhenOlderThanWindow ==
  decision.made =>
    LET stale == records[1].lastUpdate = NoDate \/ Age > FreshnessWindow
    IN IF records[1].status = "ready"
         THEN /\ decision.needsRefresh = stale
              /\ decision.regenerates = stale
              /\ decision.servesCache = ~stale
         ELSE ~decision.needsRefresh

\* C10 (amended): for a ready document the three staleness tests are true
\* exactly when lastUpdate is absent or at least 30 minutes old (31 minutes
\* is stale, 30 minutes is stale, 29 minutes is fresh), and
\* repositoryNeedsRefresh is false for every other status
C10_StaleFromWindowOn ==
  decision.made =>
    LET stale == records[1].lastUpdate = NoDate \/ Age >= FreshnessWindow
    IN /\ IF records[1].status = "ready"
            THEN /\ decision.needsRefresh = stale
                 /\ decision.regenerates = stale
                 /\ decision.servesCache = ~stale
            ELSE ~decision.needsRefresh
       /\ (records[1].status = "ready" /\ records[1].lastUpdate # NoDate
             /\ Age = FreshnessWindow + 1) => decision.needsRefresh
       /\ (records[1].status = "ready" /\ records[1].lastUpdate # NoDate
             /\ Age = FreshnessWindow - 1) => ~decision.needsRefresh

\* C10 witness: a ready document exactly 30 minutes old was judged stale
C10_Witness ==
  /\ decision.made
  /\ records[1].status = "ready"
  /\ records[1].lastUpdate # NoDate
  /\ Age = FreshnessWindow
  /\ decision.needsRefresh

\* C11: getFeedsWithCache returns the stored feeds without a generation
\* pass only for a document whose status is ready
C11_CacheHitOnlyWhenReady ==
  \A c \in 1..Len(calls) :
    (calls[c].op = "getFeedsWithCache" /\ calls[c].result = "cache-hit")
      => calls[c].statusAtReturn = "ready"

\* a ready document whose lastUpdate is within the freshness window
Fresh(rec) ==
  /\ rec.status = "ready"
  /\ rec.lastUpdate # NoDate
  /\ now - rec.lastUpdate < FreshnessWindow

\* C12: a getFeedsWithCache or repositories.search call that reaches a
\* ready and fresh document returns in that same step with the stored feeds
\* mapping, and writes nothing: the documents, the published files and the
\* last status write are unchanged, no upload is left in flight, and a call
\* that has ended never acts again
C12_FreshIsServedUntouched ==
  [][ /\ Len(calls') = Len(calls) + 1 =>
          LET call == calls'[Len(calls')]
          IN (/\ call.op \in {"getFeedsWithCache", "search"}
              /\ call.id \in 1..Len(records)
              /\ Fresh(records[call.id]))
               => /\ call.pc = "done"
                  /\ call.returned
                  /\ call.result \in {"cache-hit", "found"}
                  /\ call.feeds = records[call.id].feeds
                  /\ call.pending = {}
                  /\ records' = records
                  /\ artifacts' = artifacts
                  /\ lastWrite' = lastWrite
      /\ \A c \in 1..Len(calls) :
            (Finished(c) /\ calls[c].pending = {}) => calls'[c] = calls[c]
    ]_vars

\* C12 witness: getFeedsWithCache served the feeds of a ready document from
\* the store
C12_Witness ==
  \E c \in 1..Len(calls) :
    /\ calls[c].op = "getFeedsWithCache"
    /\ calls[c].result = "cache-hit"
    /\ calls[c].statusAtReturn = "ready"
    /\ calls[c].feeds # NoFeeds
    /\ Fresh(records[calls[c].id])

\* a ready document whose lastUpdate is absent or at least 30 minutes old
Stale(rec) ==
  /\ rec.status = "ready"
  /\ (rec.lastUpdate = NoDate \/ now - rec.lastUpdate >= FreshnessWindow)

\* C13: a repositories.search call that finds a stale document does not
\* return it as it is: a generation pass for the document runs before the
\* call returns
C13_StaleIsRegeneratedBeforeReturn ==
  [][ Len(calls') = Len(calls) + 1 =>
        LET call == calls'[Len(calls')]
        IN (/\ call.op = "search"
            /\ call.id \in 1..Len(records)
            /\ Stale(records[call.id]))
             => ~call.returned
    ]_vars

\* C14: the scheduler's selection (getPendingRepositories of the cron script
\* and the method repositories.getPending) contains every document whose
\* status is error and every document whose status is pending (statuses
\* written by the insert and by passes)
C14_SelectionHoldsErrorAndPending ==
  \A id \in 1..Len(records) :
    (NoClientWrites /\ records[id].status \in {"error", "pending"})
      => /\ id \in Range(getPendingRepositories)
         /\ id \in Range(repositoriesGetPending)

\* C15: uploadAllRSSToS3 never fails as a whole: it resolves with exactly
\* the feed-type keys it was given, the retrieval URL for each upload that
\* succeeded and null for each upload that failed
C15_UploadAllIsolatesFailures ==
  (io.fn = "uploadAllRSSToS3" /\ io.done)
    => /\ ~io.answer.threw
       /\ io.answer.keys = io.keys
       /\ \A ft \in io.keys :
            IF ft \in io.fails
              THEN io.answer.urls[ft] = NoUrl
              ELSE io.answer.urls[ft] # NoUrl

\* C16: fetchFeed returns [] on 404, the parsed array (or [] for a body
\* that is no array) on success, and throws to its caller for every other
\* failure
C16_FetchFeedThrowsOnFailure ==
  (io.fn = "fetchFeed" /\ io.done /\ ~io.response.net)
    => IF io.response.status = 404
         THEN ~io.answer.threw /\ io.answer.list = <<>>
         ELSE IF ResponseOk(io.response.status)
           THEN /\ ~io.answer.threw
                /\ io.answer.list = IF io.response.isArray
                                      THEN io.response.items ELSE <<>>
           ELSE io.answer.threw

\* the collection holds a document for the lowercased owner and repo of u
HasRecordFor(u) ==
  /\ parseGitHubUrl(u) # InvalidUrl
  /\ \E i \in 1..Len(records) :
       /\ records[i].owner = toLowerCase(parseGitHubUrl(u).owner)
       /\ records[i].repo = toLowerCase(parseGitHubUrl(u).repo)

\* the call that arrived in this step threw result without touching the
\* collection, the published files or any other call
ArrivalThrew(result) ==
  /\ Len(calls') = Len(calls) + 1
  /\ calls'[Len(calls')].pc = "thrown"
  /\ calls'[Len(calls')].returned
  /\ calls'[Len(calls')].result = result
  /\ calls'[Len(calls')].id = 0
  /\ ~calls'[Len(calls')].created
  /\ \A c \in 1..Len(calls) : calls'[c] = calls[c]
  /\ records' = records
  /\ artifacts' = artifacts
  /\ lastWrite' = lastWrite

\* a call that threw result took no further step: no pass was scheduled
NoPassAfter(result) ==
  \A c \in 1..Len(calls) :
    calls[c].result = result
      => /\ calls[c].pc = "thrown"
         /\ calls[c].id = 0
         /\ calls[c].pending = {}

\* C17: repositories.create for a URL whose lowercased owner and repo
\* already have a document fails with already-exists; no document is
\* inserted or modified and no generation pass is scheduled
C17_AlreadyExistsChangesNothing ==
  /\ [][ \A u \in Urls :
           (Create(u) /\ HasRecordFor(u)) => ArrivalThrew("already-exists")
       ]_vars
  /\ []NoPassAfter("already-exists")

\* C17 witness: a create call was refused with already-exists
C17_Witness ==
  \E c \in 1..Len(calls) :
    /\ calls[c].op = "create"
    /\ calls[c].result = "already-exists"
    /\ Len(records) = 1

\* C18: repositories.search and repositories.create called with a string
\* that has not the github.com/{owner}/{repo} shape fail with invalid-url
\* at once: no document is created or modified and no pass is started
C18_InvalidUrlChangesNothing ==
  /\ [][ \A u \in BadUrls :
           (\/ Create(u)
            \/ \E response \in ExistenceResponses : Search(u, response)
            \/ \E response \in ExistenceResponses :
                  SearchStored(u, response))
             => ArrivalThrew("invalid-url")
       ]_vars
  /\ []NoPassAfter("invalid-url")

\* C18 witness: calls of create and of search were refused with invalid-url
C18_Witness ==
  \E c, d \in 1..Len(calls) :
    /\ calls[c].op = "create"
    /\ calls[c].result = "invalid-url"
    /\ calls[d].op = "search"
    /\ calls[d].result = "invalid-url"

\* C19: when the upstream existence check of repositories.search yields
\* 404, another non-2xx status or a network error, search fails with
\* repository-not-found and creates no document: the collection, the
\* published files and the other calls are unchanged
C19_NoRecordWithoutUpstream ==
  /\ [][ \A u \in Urls \ BadUrls, response \in ExistenceResponses :
           (/\ response.net \/ ~ResponseOk(response.status)
            /\ \/ Search(u, response)
               \/ build = "V2" /\ SearchStored(u, response))
             => ArrivalThrew("repository-not-found")
       ]_vars
  /\ []NoPassAfter("repository-not-found")

\* C19 witness: a search of the build that creates documents was refused
\* with repository-not-found and the collection is still empty
C19_Witness ==
  \E c \in 1..Len(calls) :
    /\ build = "P3"
    /\ calls[c].op = "search"
    /\ calls[c].result = "repository-not-found"
    /\ records = <<>>

\* C20: repositories.getFeeds, repositories.generateRSS, getFeedsWithCache
\* and repositories.updateStatus, called with an id no document has, throw
\* a not-found error to the caller and write nothing
C20_MissingIdIsNotFound ==
  [][ \A id \in (Len(records) + 1)..MaxRecords :
        (\/ GetFeeds(id)
         \/ GenerateRSS(id)
         \/ GetFeedsWithCache(id)
         \/ \E args \in UpdateStatusArgs, ok \in BOOLEAN :
               UpdateStatus(id, args, ok))
          => \/ ArrivalThrew("not-found")
             \/ ArrivalThrew("repository-not-found")
    ]_vars

\* C21: every rendered feed, of the server and of the cron job, holds
\* exactly min(20, n) item elements for a fetched list of n items, and they
\* are the first items of the list in input order
C21_AtMostTwentyItems ==
  io.fn = "render" =>
    \A k \in 1..Len(io.outs) :
      LET items == io.outs[k].xml.items
          n == Len(io.githubData)
      IN /\ Len(items) = IF n > ItemCap THEN ItemCap ELSE n
         /\ \A i \in 1..Len(items) :
              items[i].link = io.githubData[i].html_url

\* C22: cleanDescription appends "..." exactly when the cleaned text is
\* longer than 500 characters and was cut
C22_DotsExactlyWhenTruncated ==
  (io.fn = "cleanDescription" /\ io.outs # <<>>) =>
    io.outs[1] =
      substring500(Cleaned(io.description))
        \o (IF Len(Cleaned(io.description)) > DescriptionLimit
              THEN Dots ELSE <<>>)

\* C24: two passes over the same item list render the same document except
\* for lastBuildDate, and every item's guid equals its link
C24_RenderingIsDeterministic ==
  (io.fn = "render" /\ Len(io.outs) = MaxRenders) =>
    /\ \A j, k \in 1..Len(io.outs) :
         [io.outs[j].xml EXCEPT !.lastBuildDate = toUTCString(0)]
           = [io.outs[k].xml EXCEPT !.lastBuildDate = toUTCString(0)]
    /\ \A k \in 1..Len(io.outs) :
         \A i \in 1..Len(io.outs[k].xml.items) :
           io.outs[k].xml.items[i].guid = io.outs[k].xml.items[i].link

\* C23: for an accepted input, fullUrl is https://github.com/{owner}/{repo},
\* repo does not end in .git and holds no path, query or fragment, and
\* parsing fullUrl again gives the same fullUrl
C23_FullUrlIsCanonical ==
  (io.fn = "parseGitHubUrl" /\ io.parsed # <<>>
     /\ io.parsed[1] # InvalidUrl) =>
    LET p == io.parsed[1]
    IN /\ p.fullUrl = HttpsGithubComSlash \o p.owner \o <<"/">> \o p.repo
       /\ ~EndsWith(p.repo, DotGit)
       /\ \A i \in 1..Len(p.repo) : p.repo[i] \notin {"/", "?", "#"}
       /\ Len(io.parsed) = 2 => io.parsed[2].fullUrl = p.fullUrl

\* C25: createdAt is set to the time of the insert and no later step (a
\* pass, repositories.updateStatus, search, getFeedsWithCache, the cron job)
\* changes it or removes the document
C25_CreatedAtIsImmutable ==
  [][/\ Len(records') >= Len(records)
     /\ \A i \in 1..Len(records) :
          records'[i].createdAt = records[i].createdAt
     /\ \A i \in (Len(records) + 1)..Len(records') :
          records'[i].createdAt = now
    ]_vars

\* a document written again after the clock moved on
C25_Witness ==
  \E i \in 1..Len(records) :
    /\ records[i].lastUpdate > records[i].createdAt
    /\ lastWrite.id = i
    /\ lastWrite.new \in {"generating", "ready", "error"}

\* call c is a pass past its own generating write, and this step is its
\* write that takes the document out of generating
LeavesGenerating(c) ==
  /\ \/ calls[c].pc = "wready"
     \/ calls[c].pc = "werr" /\ calls[c].tried # {}
  /\ calls[c].id \in 1..Len(records)
  /\ records[calls[c].id].status = "generating"
  /\ records'[calls[c].id].status \in {"ready", "error"}
  /\ calls'[c] # calls[c]

\* C26: when a pass takes its document out of generating, it has attempted
\* the fetch of each of the four feed types
C26_AllFourAttempted ==
  [][\A c \in 1..Len(calls) :
       LeavesGenerating(c) => calls[c].tried = FeedTypes
    ]_vars

\* C27: in every reachable state, whatever the methods called, the status
\* of every document is pending, generating, ready or error
C27_StatusIsOneOfFour ==
  \A i \in 1..Len(records) : records[i].status \in Statuses

\* C28: the url of every stored document is https://github.com/ followed
\* by the document's own stored owner, a slash and its stored repo
C28_UrlIsBuiltFromStoredFields ==
  \A i \in 1..Len(records) :
    records[i].url =
      HttpsGithubComSlash \o records[i].owner \o <<"/">> \o records[i].repo

\* call c is at the generating write or the error write of its pass, and
\* this step is that write reaching the collection
WritesGeneratingOrError(c) ==
  /\ calls[c].pc \in {"wgen", "werr"}
  /\ calls'[c] # calls[c]
  /\ records' # records

\* C29: the generating write and the error write of a pass change status
\* and lastUpdate of their document (the error write also error) and
\* nothing else: feeds, url, owner, repo and createdAt stay, so do all
\* other documents
C29_GeneratingAndErrorWritesKeepFeeds ==
  [][\A c \in 1..Len(calls) :
       WritesGeneratingOrError(c) =>
         LET id == calls[c].id
         IN /\ DOMAIN records' = DOMAIN records
            /\ \A i \in DOMAIN records : i # id => records'[i] = records[i]
            /\ records'[id] =
                 [records[id] EXCEPT
                    !.status = IF calls[c].pc = "wgen" THEN "generating"
                                                       ELSE "error",
                    !.lastUpdate = now,
                    !.error = IF calls[c].pc = "werr" THEN calls[c].err
                                                      ELSE @]
    ]_vars

\* a failed pass wrote error onto a document that still carries the feed
\* URLs an earlier pass committed
C29_Witness ==
  \E i \in 1..Len(records) :
    /\ NoClientWrites
    /\ lastWrite.id = i
    /\ lastWrite.op \in PassOps
    /\ lastWrite.new = "error"
    /\ records[i].status = "error"
    /\ \A ft \in FeedTypes : records[i].feeds[ft] # NoUrl

\* C30: repositories.generateRSS called for an existing document, whatever
\* its status and lastUpdate, starts a pass (its next step is the
\* generating write) and has not returned feeds
C30_GenerateRSSAlwaysRegenerates ==
  [][\A id \in 1..Len(records) :
       GenerateRSS(id) =>
         /\ calls'[Len(calls')].pc = "wgen"
         /\ ~calls'[Len(calls')].returned
    ]_vars

\* a run of the cron process is between its connect() and its disconnect()
RunUsesConnection(r) ==
  calls[r].pc \in {"select", "wgen", "cfeeds", "wready", "werr"}

\* C31: runs of processAllPendingRepositories never overlap: at most one
\* run is under way, at most one repository is being generated, and the
\* connection a run is using has not been closed
C31_CronRunsNeverOverlap ==
  /\ Cardinality({r \in 1..Len(calls) :
                    calls[r].pc \notin {"new", "done"}}) <= 1
  /\ Cardinality({r \in 1..Len(calls) :
                    calls[r].pc \in {"cfeeds", "wready", "werr"}}) <= 1
  /\ \A r \in 1..Len(calls) : RunUsesConnection(r) => ~ConnectionClosed

\* url is /{owner-repo}/{feedType}.xml: two non-empty segments, the second
\* ending in .xml
TwoSegmentShape(url) ==
  LET parts == split(url)
  IN /\ Len(parts) = 3
     /\ parts[1] = <<>>
     /\ parts[2] # <<>>
     /\ Len(parts[3]) > Len(DotXml)
     /\ EndsWith(parts[3], DotXml)

\* C32: a GET request for /{owner-repo}/{feedType}.xml is answered 302 with
\* repo = owner-repo and feed = feedType, and 400 is answered only to paths
\* without that shape
C32_FeedUrlsAreRedirected ==
  (io.fn = "apiRss" /\ io.answer # NoAnswerYet /\ io.method = "GET") =>
    /\ TwoSegmentShape(io.url) =>
         LET parts == split(io.url)
         IN io.answer =
              Answer(302, parts[2],
                     SubSeq(parts[3], 1, Len(parts[3]) - Len(DotXml)))
    /\ io.answer.status = 400 => ~TwoSegmentShape(io.url)

\* C33: two repositories with different (owner, repo) have different path
\* keys and feed URLs, and the files published for the first are still
\* there after the passes for both
C33_KeyIsInjective ==
  (io.fn = "publish" /\ io.repos[1] # io.repos[2]
     /\ io.published = Len(io.repos)) =>
    LET first == io.repos[1]
        second == io.repos[2]
    IN /\ repoPath(first.owner, first.repo)
            # repoPath(second.owner, second.repo)
       /\ \A ft \in FeedTypes :
            feedUrl("s3", repoPath(first.owner, first.repo), ft)
              # feedUrl("s3", repoPath(second.owner, second.repo), ft)
       /\ \A ft \in FeedTypes :
            [key |-> repoPath(first.owner, first.repo), type |-> ft,
             body |-> FilesOf(first)[ft]] \in artifacts

\* the step in which call c writes status 'ready'
WritesReady(c) ==
  /\ c \in 1..Len(calls)
  /\ calls[c].pc = "wready"
  /\ calls'[c].pc \notin {"wready", "werr", "thrown"}

\* C34: status 'ready' is written only after every upload started by the
\* pass has settled: the pass that writes 'ready' has no upload in flight,
\* also when one of the parallel uploads failed early
C34_ReadyOnlyAfterUploadsSettled ==
  [][\A c \in 1..Len(calls) : WritesReady(c) => calls[c].pending = {}]_vars

\* a generation pass of call c on record id is under way
PassOn(c, id) ==
  /\ calls[c].id = id
  /\ calls[c].pc \in {"wgen", "fetch", "cfeeds", "upload", "wready", "werr"}

\* call c has its pass on record id still before it
PassAhead(c, id) ==
  \/ calls[c].pc = "find" /\ calls[c].id = id
  \/ calls[c].queue # <<>> /\ id \in Range(Tail(calls[c].queue))

\* C35: once all the passes triggered on a record have completed, its
\* status is ready or error and is the terminal status written by the pass
\* that finished last
C35_LastFinisherDecides ==
  [][\A c \in 1..Len(calls) : \A id \in 1..Len(records) :
       (/\ PassOn(c, id)
        /\ \A d \in 1..Len(calls) : ~PassOn(d, id)' /\ ~PassAhead(d, id)')
       => \/ calls[c].pc = "wready" /\ records'[id].status = "ready"
          \/ calls[c].pc = "werr" /\ records'[id].status = "error"]_vars

\* C36: a pass in which GitHub answered a feed type's fetch with a failure
\* other than 404 leaves the artifact already published for that feed type
\* as it was
C36_FailedFetchKeepsArtifact ==
  [][\A c \in 1..Len(calls) : \A a \in artifacts :
       (/\ calls'[c] # calls[c]
        /\ a.key = repoPath(calls[c].snap.owner, calls[c].snap.repo)
        /\ a.type \in calls[c].failed)
       => a \in artifacts']_vars

\* C37: in the search-driven flow, a repositories.search that finds its
\* repository stored with status pending or generating, left so by a pass
\* that has ended, starts a generation pass on it
C37_SearchRegeneratesUnfinishedRecords ==
  [][(/\ build = "P3"
      /\ Len(calls') = Len(calls) + 1
      /\ calls'[Len(calls')].op = "search"
      /\ calls'[Len(calls')].id # 0
      /\ records[calls'[Len(calls')].id].status \in {"pending", "generating"}
      /\ \A d \in 1..Len(calls) : ~PassOn(d, calls'[Len(calls')].id))
     => calls'[Len(calls')].pc = "wgen"]_vars

\* run r of processAllPendingRepositories has returned
RunEnded(r) == r \in 1..Len(calls) /\ calls[r].pc = "done"

\* C38: every run of processAllPendingRepositories terminates, and when a
\* run that was the only writer ends, every record it selected, which is
\* every record that was pending or generating, is ready or error, whatever
\* file writes failed
C38_CronRunTerminatesWithTerminalStatuses ==
  /\ \A r \in 1..MaxRuns : (r \in 1..Len(calls)) ~> RunEnded(r)
  /\ []((Len(calls) = 1 /\ RunEnded(1))
          => \A i \in 1..Len(records) :
               records[i].status \in {"ready", "error"})

\* the only run has ended after it generated two records, with a failed
\* file write in the first and a failed fetch in the second
C38_Witness ==
  /\ Len(calls) = 1
  /\ RunEnded(1)
  /\ Len(records) = 2
  /\ records[1].status = "ready"
  /\ records[1].feeds["issues"] = NoUrl
  /\ records[1].feeds["releases"] # NoUrl
  /\ records[2].status = "ready"
  /\ records[2].feeds["issues"] # NoUrl
  /\ \E a \in artifacts :
       a.key = records[2].owner \o <<"/">> \o records[2].repo
         /\ a.type = "issues" /\ a.body = "empty"
====
